---- MODULE Spec2Model ----
(***************************************************************************)
(* Model of the SpringFull spring calculator (SpringCalculatorDialog and   *)
(* DatabaseManager of SpringFullCalculatorModule.py).                      *)
(*                                                                         *)
(* Units.  The dialog's spin boxes have two decimals, the wire picklist    *)
(* shows "%.2f" texts, the dead-turn spin box has one decimal:             *)
(*   lengths (d, Dm, target, H, Lc)  are integers, unit 0.01 mm;           *)
(*   the load F                      is an integer, unit 0.01 daN;         *)
(*   dead turns nm                   is an integer, unit 0.1 turn;         *)
(*   stress factors                  are integers, unit 0.01;              *)
(*   G and Rm                        are integers, unit daN/mm2.           *)
(* Every derived real (d_mini, tau, f, L0) is an exact fraction, kept as a *)
(* pair of factor lists [n, d] standing for Product(n) / Product(d), and   *)
(* compared by exact multiplication (the code computes them in binary      *)
(* floating point; the model is the real-number reading of the formulas).  *)
(***************************************************************************)
EXTENDS Integers, Sequences, FiniteSets, TLC

VARIABLES DB, translations, self, body, hist

vars == <<DB, translations, self, body, hist>>

-----------------------------------------------------------------------------
(* Exact arithmetic on products of naturals (digits in base 1000, least     *)
(* significant first; every factor is below 2 000 000).                     *)

RECURSIVE MulDigits(_, _, _)
MulDigits(x, k, c) ==
  IF x = <<>>
    THEN (IF c = 0 THEN <<>> ELSE <<c % 1000>> \o MulDigits(<<>>, k, c \div 1000))
    ELSE LET t == Head(x) * k + c
         IN  <<t % 1000>> \o MulDigits(Tail(x), k, t \div 1000)

RECURSIVE Product(_)
Product(fs) == IF fs = <<>> THEN <<1>> ELSE MulDigits(Product(Tail(fs)), Head(fs), 0)

RECURSIVE Norm(_)
Norm(x) == IF x = <<>> THEN <<>>
           ELSE IF x[Len(x)] = 0 THEN Norm(SubSeq(x, 1, Len(x) - 1)) ELSE x

RECURSIVE LessFrom(_, _, _)
LessFrom(a, b, i) == IF i = 0 THEN FALSE
                     ELSE IF a[i] # b[i] THEN a[i] < b[i] ELSE LessFrom(a, b, i - 1)

BigLessNorm(a, b) == IF Len(a) # Len(b) THEN Len(a) < Len(b) ELSE LessFrom(a, b, Len(a))

BigLess(x, y) == BigLessNorm(Norm(x), Norm(y))

\* fractions [n |-> factors, d |-> factors], all factors >= 0, denominators > 0
RatLess(a, b) == BigLess(Product(a.n \o b.d), Product(b.n \o a.d))
RatGE(a, b) == ~RatLess(a, b)
RatInt(i) == [n |-> <<i>>, d |-> <<>>]
RatMul(a, b) == [n |-> a.n \o b.n, d |-> a.d \o b.d]
RatDiv(a, b) == [n |-> a.n \o b.d, d |-> a.d \o b.n]
RatPositive(a) == RatLess(RatInt(0), a)

Abs(x) == IF x < 0 THEN -x ELSE x

-----------------------------------------------------------------------------
(* DatabaseManager.  The three JSON files are not part of the sources; the  *)
(* model has three configurations of what load_all leaves in the manager:   *)
(*   "none"      no file found: every table is the empty dict;              *)
(*   "localized" no technical materials file: load_all builds materials     *)
(*               that hold a description and a code only; a short wire      *)
(*               table and the end types are loaded;                        *)
(*   "std"       the three files are loaded;                                *)
(*   "zero"      a materials file whose only material has a shear modulus   *)
(*               and stress factors of 0.                                    *)

EmptyDict == [k \in {} |-> 0]
None == [None |-> TRUE]

\* dict.get(k, dflt)
get(f, k, dflt) == IF k \in DOMAIN f THEN f[k] ELSE dflt

DBConfigs == {"none", "localized", "std", "zero"}

PianoWire ==
  [shear_modulus_G |-> [value_daN |-> 8150],
   tensile_strength_Rm |->
     [table |-> << [d_min |-> 0,   d_max |-> 200,  Rm_daN |-> 190],
                   [d_min |-> 200, d_max |-> 400,  Rm_daN |-> 170],
                   [d_min |-> 400, d_max |-> 550,  Rm_daN |-> 157] >>],
   stress_limits |-> [medium_dynamic |-> [factor |-> 45],
                      severe_dynamic |-> [factor |-> 35],
                      set_solid      |-> [factor |-> 85]]]

\* a material of the technical file with no Rm table and no stress limits
Inox ==
  [shear_modulus_G |-> [value_daN |-> 7000]]

\* a material whose shear modulus and stress factors are 0
ZeroWire ==
  [shear_modulus_G |-> [value_daN |-> 0],
   stress_limits |-> [medium_dynamic |-> [factor |-> 0],
                      severe_dynamic |-> [factor |-> 0]]]

LocalizedOnly == [description |-> "corde a piano", code |-> "SH"]

materials_data_of(cfg) ==
  CASE cfg = "std" ->
         [materials  |-> ("CORDE A PIANO" :> PianoWire @@ "INOX" :> Inox),
          work_types |-> ("SERVICE MOYEN - DYNAMIQUE LENT" :>
                              [stress_factor_key |-> "medium_dynamic"] @@
                          "SERVICE SEVERE - DYNAMIQUE RAPIDE" :>
                              [stress_factor_key |-> "severe_dynamic"])]
    [] cfg = "localized" ->
         [materials |-> ("CORDE A PIANO" :> LocalizedOnly)]
    [] cfg = "zero" ->
         [materials |-> ("CORDE A PIANO" :> ZeroWire)]
    [] OTHER -> EmptyDict

diameters_data_of(cfg) ==
  CASE cfg = "std" ->
         [standard_wire_diameters |->
            [all_diameters |-> <<50, 100, 150, 200, 250, 300, 400, 500, 600>>]]
    [] cfg = "localized" ->
         [standard_wire_diameters |-> [all_diameters |-> <<100, 200, 400>>]]
    [] OTHER -> EmptyDict

EndTypeTable ==
  ("COUPEES"             :> [dead_coils |-> [minimum |-> 0],  grinding_required |-> FALSE] @@
   "MEULEES"             :> [dead_coils |-> [minimum |-> 0],  grinding_required |-> TRUE] @@
   "RAPPROCHEES"         :> [dead_coils |-> [minimum |-> 15], grinding_required |-> FALSE] @@
   "RAPPROCHEES_MEULEES" :> [dead_coils |-> [minimum |-> 10], grinding_required |-> TRUE])

end_types_data_of(cfg) ==
  IF cfg \in {"std", "localized"}
    THEN [end_types |-> EndTypeTable,
          selection_order |-> <<"COUPEES", "MEULEES", "RAPPROCHEES", "RAPPROCHEES_MEULEES">>]
    ELSE EmptyDict

load_all(cfg) ==
  [materials_data |-> materials_data_of(cfg),
   diameters_data |-> diameters_data_of(cfg),
   end_types_data |-> end_types_data_of(cfg),
   loaded |-> TRUE]

get_material_list(db) == DOMAIN get(db.materials_data, "materials", EmptyDict)

get_material(db, name) == get(get(db.materials_data, "materials", EmptyDict), name, None)

\* Python's "if mat": None and the empty dict are false
Truthy(mat) == mat # None /\ mat # EmptyDict

get_module_G(db, name) ==
  LET mat == get_material(db, name)
  IN  IF Truthy(mat)
        THEN get(get(mat, "shear_modulus_G", EmptyDict), "value_daN", 8150)
        ELSE 8150

\* a lookup that falls back on 150 outside the rows
Rm_of_table_default(table, d) ==
  LET hits == {i \in 1..Len(table) : table[i].d_min <= d /\ d < table[i].d_max}
  IN  IF hits # {}
        THEN get(table[CHOOSE i \in hits : \A j \in hits : i <= j], "Rm_daN", 150)
        ELSE 150

\* the first row of the table with d_min <= d < d_max, else the last row
Rm_of_table(table, d) ==
  LET hits == {i \in 1..Len(table) : table[i].d_min <= d /\ d < table[i].d_max}
  IN  IF hits # {}
        THEN get(table[CHOOSE i \in hits : \A j \in hits : i <= j], "Rm_daN", 150)
        ELSE IF table # <<>> THEN get(table[Len(table)], "Rm_daN", 150) ELSE 150

Rm_of_material(mat, d) ==
  IF ~Truthy(mat) THEN 150
  ELSE Rm_of_table(get(get(mat, "tensile_strength_Rm", EmptyDict), "table", <<>>), d)

get_Rm(db, name, d) == Rm_of_material(get_material(db, name), d)

\* a lookup that falls back on the medium-service factor of piano wire
get_stress_factor_medium(db, material_name, service_key) ==
  get(get(get(get_material(db, material_name), "stress_limits", EmptyDict),
          service_key, EmptyDict), "factor", 45)

get_stress_factor(db, material_name, service_key) ==
  LET mat == get_material(db, material_name)
  IN  IF Truthy(mat)
        THEN get(get(get(mat, "stress_limits", EmptyDict), service_key, EmptyDict),
                 "factor", 40)
        ELSE 40

get_set_solid_factor(db, material_name) ==
  LET mat == get_material(db, material_name)
  IN  IF Truthy(mat)
        THEN get(get(get(mat, "stress_limits", EmptyDict), "set_solid", EmptyDict),
                 "factor", 80)
        ELSE 80

get_work_types(db) == get(db.materials_data, "work_types", EmptyDict)

\* dict order of the work types (index 1 is the combo box's default)
get_work_type_list(db) ==
  IF "SERVICE MOYEN - DYNAMIQUE LENT" \in DOMAIN get_work_types(db)
    THEN <<"SERVICE MOYEN - DYNAMIQUE LENT", "SERVICE SEVERE - DYNAMIQUE RAPIDE">>
    ELSE <<>>

get_stress_factor_key(db, work_type_name) ==
  get(get(get_work_types(db), work_type_name, EmptyDict), "stress_factor_key", "medium_dynamic")

get_wire_diameters(db) ==
  get(get(db.diameters_data, "standard_wire_diameters", EmptyDict), "all_diameters",
      <<100, 150, 200, 250, 300, 400, 500, 600>>)

get_end_types(db) ==
  LET et == get(db.end_types_data, "end_types", EmptyDict)
  IN  [k \in {x \in DOMAIN et : "dead_coils" \in DOMAIN et[x]} |-> et[k]]

\* selection_order, else the keys of the end types (none in the configurations here)
get_end_type_list(db) == get(db.end_types_data, "selection_order", <<>>)

get_dead_coils_min(db, end_type_name) ==
  get(get(get(get_end_types(db), end_type_name, EmptyDict), "dead_coils", EmptyDict),
      "minimum", 20)

is_ground_type(db, end_type_name) ==
  get(get(get_end_types(db), end_type_name, EmptyDict), "grinding_required", FALSE)

\* a factor clamped below an index of 1 instead of 0.75
get_coef_bergstrasser_below_one(c) ==
  IF c.n <= c.d
    THEN [n |-> <<2>>, d |-> <<>>]
    ELSE [n |-> <<4 * c.n + 2 * c.d>>, d |-> <<4 * c.n - 3 * c.d>>]

\* c is the fraction [n, d] of two integers, d > 0
get_coef_bergstrasser(c) ==
  IF 4 * c.n <= 3 * c.d
    THEN [n |-> <<2>>, d |-> <<>>]
    ELSE [n |-> <<4 * c.n + 2 * c.d>>, d |-> <<4 * c.n - 3 * c.d>>]

-----------------------------------------------------------------------------
(* Translations (SpringFullI18nModule.tr).  The locale files are not part   *)
(* of the sources.  With a locale loaded the diameter types read            *)
(* "Dm (moyen)", "Di (interieur)", "De (exterieur)" and every alert message *)
(* carries the warning sign; with no locale file tr returns the key.        *)

TrStates == {"loaded", "missing"}

AlertKeys == {"alert.wire_diameter", "alert.stress", "alert.solid_length",
              "alert.impossible", "alert.index_low", "alert.index_high",
              "alert.guidance", "alert.pitch", "alert.pitch_hint"}

LocaleText(key) ==
  CASE key = "calc.diameter_mean"  -> "Dm (moyen)"
    [] key = "calc.diameter_inner" -> "Di (interieur)"
    [] key = "calc.diameter_outer" -> "De (exterieur)"
    [] key = "calc.valid_design"   -> "OK design valide"
    [] key = "alert.pitch_hint"    -> "-> reduire nm"
    [] OTHER -> "(!) " \o key

tr(g, key) == IF g.translations = "loaded" THEN LocaleText(key) ELSE key

\* "Di" in text, "De" in text, the warning sign in text
HasDi(text) == text = "Di (interieur)"
HasDe(text) == text = "De (exterieur)"
HasWarningSign(text) == text \in {"(!) " \o k : k \in AlertKeys}

DiameterTypes(g) == <<tr(g, "calc.diameter_mean"), tr(g, "calc.diameter_inner"), tr(g, "calc.diameter_outer")>>

-----------------------------------------------------------------------------
(* SpringCalculatorDialog: the widgets                                      *)

\* QDoubleSpinBox.setValue: the value is brought into [minimum, maximum]
\* (values are already multiples of the box's step of precision)
Clamp(v, lo, hi) == IF v < lo THEN lo ELSE IF v > hi THEN hi ELSE v

inp_Dm_setValue(v) == Clamp(v, 100, 50000)

compute_Dm_from_target(target_diameter, diameter_type, d_wire) ==
  IF HasDi(diameter_type) THEN target_diameter + d_wire
  ELSE IF HasDe(diameter_type) THEN target_diameter - d_wire
  ELSE target_diameter

Cube(d) == [n |-> <<d, d, d>>, d |-> <<>>]

\* d >= d_mini, d_mini given by its cube (unit 0.01 mm, cubed)
AtLeast(d, d_mini3) == d >= 0 /\ RatGE(Cube(d), d_mini3)

IndexOf(seq, x) == CHOOSE i \in 1..Len(seq) : seq[i] = x /\ \A j \in 1..(i - 1) : seq[j] # x

LastFive(seq) == IF Len(seq) >= 5 THEN SubSeq(seq, Len(seq) - 4, Len(seq)) ELSE seq

\* a selection that keeps any current wire that is large enough
SelectedDiameterKeepCurrent(valid_diameters, current_d, d_mini3, force_select_minimum) ==
  IF force_select_minimum THEN valid_diameters[1]
  ELSE IF AtLeast(current_d, d_mini3) THEN current_d
  ELSE valid_diameters[1]

\* a selection that always takes the smallest listed wire
SelectedDiameterSmallest(valid_diameters, current_d, d_mini3, force_select_minimum) ==
  valid_diameters[1]

\* the picklist entry _filter_diameters selects
SelectedDiameter(valid_diameters, current_d, d_mini3, force_select_minimum) ==
  IF force_select_minimum THEN valid_diameters[1]
  ELSE IF AtLeast(current_d, d_mini3)
          /\ \E i \in 1..Len(valid_diameters) : valid_diameters[i] = current_d
         THEN valid_diameters[IndexOf(valid_diameters, current_d)]
  ELSE valid_diameters[1]

\* a fallback on the whole table
valid_or_all(filtered, all_diameters) ==
  IF filtered = <<>> THEN all_diameters ELSE filtered

\* the entries >= d_mini, or the last five of the table when there is none
valid_or_last(filtered, all_diameters) ==
  IF filtered = <<>> THEN LastFive(all_diameters) ELSE filtered

filter_repopulate(valid_diameters, current_d, d_mini3, force_select_minimum) ==
  [items |-> valid_diameters,
   text  |-> SelectedDiameter(valid_diameters, current_d, d_mini3, force_select_minimum)]

\* a filter that leaves the picklist and its selection as they are
filter_diameters_stale(w, d_mini3, force_select_minimum) == w.inp_d

\* _filter_diameters: w is the dialog; returns the wire picklist
\* inp_d = [items, text]
filter_diameters(w, d_mini3, force_select_minimum) ==
  IF w.updating_diameter THEN w.inp_d
  ELSE filter_repopulate(
         valid_or_last(SelectSeq(w.all_diameters, LAMBDA d : AtLeast(d, d_mini3)),
                       w.all_diameters),
         w.inp_d.text, d_mini3, force_select_minimum)

\* the stress formulas of _recalc (lines 1515-1532, 1558-1576, 1590-1600)
\* for a wire diameter d and a mean diameter Dm
spring_index(d, Dm) == IF d > 0 THEN [n |-> Dm, d |-> d] ELSE [n |-> 10, d |-> 1]

stress_values(Rm, c, K, tau_adm, coef_k, tau_adm_eff, F, d, Dm) ==
  LET val == RatDiv(RatMul(coef_k, [n |-> <<255, F, Dm>>, d |-> <<>>]), tau_adm_eff)
  IN  [Rm |-> Rm, c |-> c, K |-> K, tau_adm |-> tau_adm, coef_k |-> coef_k,
       tau_adm_eff |-> tau_adm_eff,
       tau_reel |-> IF d > 0
                      THEN RatMul(coef_k, [n |-> <<255, F, Dm>>, d |-> <<d, d, d>>])
                      ELSE RatInt(0),
       d_mini |-> IF RatPositive(tau_adm_eff) /\ Dm > 0 /\ F > 0 /\ RatPositive(val)
                    THEN val ELSE RatInt(0)]

\* the stresses without the correction of the severe service
stress_uncorrected(Rm, c, K, tau_adm, is_severe, F, d, Dm) ==
  stress_values(Rm, c, K, tau_adm, RatInt(1), tau_adm, F, d, Dm)

stress_admissible(Rm, c, K, tau_adm, is_severe, F, d, Dm) ==
  stress_values(Rm, c, K, tau_adm,
                IF is_severe THEN K ELSE RatInt(1),
                IF is_severe /\ RatPositive(K) THEN RatDiv(tau_adm, K) ELSE tau_adm,
                F, d, Dm)

stress_of(Rm, c, stress_factor, is_severe, F, d, Dm) ==
  stress_admissible(Rm, c, get_coef_bergstrasser(c),
                    [n |-> <<Rm, stress_factor>>, d |-> <<100>>], is_severe, F, d, Dm)

sizing(g, matiere, stress_factor, is_severe, F, d, Dm) ==
  stress_of(get_Rm(g.DB, matiere, d), spring_index(d, Dm), stress_factor, is_severe,
            F, d, Dm)

max_iterations == 10

\* Dm_new of an iteration: the mean diameter for the wire just picked
Dm_for(q, d_new) ==
  LET Dm_target == compute_Dm_from_target(q.target_diameter, q.diameter_type, d_new)
  IN  IF Dm_target <= 0 THEN d_new + 100 ELSE Dm_target

\* the convergence loop of _recalc (1510-1555); the tolerance of 0.001 mm is a
\* tenth of the unit.  iterate: the guard on Dm and the filter; converge: the
\* test that ends the loop.
\* what one iteration did: the pair (d, Dm) it computed d_mini for, and the
\* picklist _filter_diameters left
filter_call(d, Dm, picked) ==
  [d |-> d, Dm |-> Dm, items |-> picked.items, text |-> picked.text]

RECURSIVE convergence_loop(_, _, _, _, _, _, _)
RECURSIVE iterate(_, _, _, _, _, _, _)
RECURSIVE picked_wire(_, _, _, _, _, _, _, _)
RECURSIVE converge(_, _, _, _, _, _, _, _, _)
converge(g, w, q, iteration, d, Dm, trace, picked, Dm_new) ==
  IF 10 * Abs(picked.text - d) < 1 /\ 10 * Abs(Dm_new - Dm) < 1
    THEN [d |-> picked.text, Dm |-> Dm_new, inp_d |-> picked,
          trace |-> Append(trace, filter_call(d, Dm, picked)), converged |-> TRUE]
    ELSE convergence_loop(g, [w EXCEPT !.inp_d = picked], q, iteration + 1,
                          picked.text, Dm_new, Append(trace, filter_call(d, Dm, picked)))

picked_wire(g, w, q, iteration, d, Dm, trace, picked) ==
  converge(g, w, q, iteration, d, Dm, trace, picked, Dm_for(q, picked.text))

iterate(g, w, q, iteration, d, Dm, trace) ==
  picked_wire(g, w, q, iteration, d, Dm, trace,
              filter_diameters(w, sizing(g, q.matiere, q.stress_factor, q.is_severe,
                                         q.F, d, Dm).d_mini, FALSE))

convergence_loop(g, w, q, iteration, d, Dm, trace) ==
  IF iteration >= max_iterations
    THEN [d |-> d, Dm |-> Dm, inp_d |-> w.inp_d, trace |-> trace, converged |-> FALSE]
    ELSE iterate(g, w, q, iteration, d, IF Dm <= d THEN d + 100 ELSE Dm, trace)

\* str.replace("_", " ") on the end type keys
replace_underscore(end_type) ==
  CASE end_type = "RAPPROCHEES_MEULEES" -> "RAPPROCHEES MEULEES"
    [] OTHER -> end_type

\* the inputs _recalc reads from the widgets and the data base (1465-1498)
read_service(g, w, stress_key) ==
  [target_diameter |-> w.inp_Dm,
   diameter_type |-> w.inp_diameter_type,
   F |-> w.inp_F, H_charge |-> w.inp_H_charge, Lc_max |-> w.inp_Lc_max,
   matiere |-> w.current_material,
   service_name |-> w.inp_service,
   end_type |-> w.inp_end_type,
   G |-> get_module_G(g.DB, w.current_material),
   stress_factor |-> get_stress_factor(g.DB, w.current_material, stress_key),
   is_severe |-> (stress_key = "severe_dynamic"),
   nm |-> w.inp_nm.value,
   nm_reel |-> IF w.inp_end_type \in {"COUPEES", "MEULEES"} THEN 0 ELSE w.inp_nm.value]

read_inputs(g, w) == read_service(g, w, get_stress_factor_key(g.DB, w.inp_service))

\* the wire the loop starts from: the selected one, or the smallest of the
\* table when the recalculation is forced
first_d(w, force_diameter_update) ==
  IF force_diameter_update
    THEN (IF w.all_diameters # <<>> THEN w.all_diameters[1] ELSE 50)
    ELSE w.inp_d.text

run_loop(g, w, q, force_diameter_update) ==
  convergence_loop(g, w, q, 0, first_d(w, force_diameter_update),
                   compute_Dm_from_target(q.target_diameter, q.diameter_type,
                                          first_d(w, force_diameter_update)),
                   <<>>)



\* the design _recalc settles on (1557-1600): d, Dm, the stress values and the
\* d_mini it reports (that of the loop's pair, also when the wire is reselected)
design_record(d, Dm, inp_d, d_mini, sz, forced) ==
  [d |-> d, Dm |-> Dm, inp_d |-> inp_d, d_mini |-> d_mini, forced |-> forced,
   c |-> sz.c, K |-> sz.K, Rm |-> sz.Rm, tau_adm |-> sz.tau_adm, coef_k |-> sz.coef_k,
   tau_adm_eff |-> sz.tau_adm_eff, tau_reel |-> sz.tau_reel]

Dm_reselected(q, d) ==
  LET Dm == compute_Dm_from_target(q.target_diameter, q.diameter_type, d)
  IN  IF Dm <= d THEN d + 100 ELSE Dm

design_forced(g, q, d_mini, picked) ==
  design_record(picked.text, Dm_reselected(q, picked.text), picked, d_mini,
                sizing(g, q.matiere, q.stress_factor, q.is_severe, q.F,
                       picked.text, Dm_reselected(q, picked.text)), TRUE)

\* a forced recalculation that keeps the wire the loop ended on
design_unforced(g, w, q, lp, sz, force_diameter_update) ==
  design_record(lp.d, lp.Dm, lp.inp_d, sz.d_mini, sz, force_diameter_update)

design_final(g, w, q, lp, sz, force_diameter_update) ==
  IF force_diameter_update
    THEN design_forced(g, q, sz.d_mini,
                       filter_diameters([w EXCEPT !.inp_d = lp.inp_d], sz.d_mini, TRUE))
    ELSE design_record(lp.d, lp.Dm, lp.inp_d, sz.d_mini, sz, FALSE)

design(g, w, q, lp, force_diameter_update) ==
  design_final(g, w, q, lp,
               sizing(g, q.matiere, q.stress_factor, q.is_severe, q.F, lp.d, lp.Dm),
               force_diameter_update)

\* turn counts without the floor of half a turn
turns_unfloored(q, d, is_ground, nt) ==
  [is_ground |-> is_ground, nt |-> nt,
   Lc_reel |-> IF d > 0 THEN (IF is_ground THEN nt * d ELSE (nt + 4) * d) ELSE 4 * d,
   n |-> 5 * nt - 4 * q.nm_reel]

\* turn counts (1607-1623): nt in quarter turns, Lc_reel in quarters of the
\* length unit, n in twentieths of a turn (nm is in tenths)
turns_of(q, d, is_ground, nt) ==
  [is_ground |-> is_ground, nt |-> nt,
   Lc_reel |-> IF d > 0 THEN (IF is_ground THEN nt * d ELSE (nt + 4) * d) ELSE 4 * d,
   n |-> IF 5 * nt - 4 * q.nm_reel > 10 THEN 5 * nt - 4 * q.nm_reel ELSE 10]

total_turns(q, d, is_ground) ==
  turns_of(q, d, is_ground,
           IF d > 0
             THEN (IF is_ground THEN (4 * q.Lc_max) \div d ELSE (4 * q.Lc_max) \div d - 4)
             ELSE 4)

turns(g, q, d) == total_turns(q, d, is_ground_type(g.DB, q.end_type))

\* the spring rate R = G d^4 / (8 Dm^3 n) (1625), in daN/mm
spring_rate(q, d, Dm, n) ==
  IF Dm > 0 /\ n > 0
    THEN [n |-> <<q.G, d, d, d, d>>, d |-> <<40, Dm, Dm, Dm, n>>]
    ELSE RatInt(0)

\* a deflection computed without looking at the rate
deflection_unguarded(q, d, Dm, n) ==
  [n |-> <<40, q.F, Dm, Dm, Dm, n>>, d |-> <<q.G, d, d, d, d>>]

\* deflection f = F / R with R = G d^4 / (8 Dm^3 n), in the length unit
deflection(q, d, Dm, n) ==
  IF Dm > 0 /\ n > 0 /\ q.G > 0 /\ d > 0
    THEN [n |-> <<40, q.F, Dm, Dm, Dm, n>>, d |-> <<q.G, d, d, d, d>>]
    ELSE RatInt(0)

\* f > x and f < x for an integer x
RatGreaterInt(f, x) == IF x < 0 THEN TRUE ELSE RatLess(RatInt(x), f)
RatLessInt(f, x) == IF x <= 0 THEN FALSE ELSE RatLess(f, RatInt(x))

\* the alert keys of _recalc, in the order they are appended (1650-1682)
alerts_of(q, ds, t, f) ==
  LET a1 == IF RatLess(Cube(ds.d), ds.d_mini) THEN <<"alert.wire_diameter">> ELSE <<>>
      a2 == IF RatLess(ds.tau_adm_eff, ds.tau_reel) THEN <<"alert.stress">> ELSE <<>>
      a3 == IF t.Lc_reel > 4 * q.Lc_max THEN <<"alert.solid_length">> ELSE <<>>
      \* L0 < Lc_reel  <=>  4 f < Lc_reel (quarters) - 4 H
      a4 == IF RatLessInt(RatMul(RatInt(4), f), t.Lc_reel - 4 * q.H_charge)
              THEN <<"alert.impossible">> ELSE <<>>
      a5 == IF ds.c.n < 4 * ds.c.d THEN <<"alert.index_low">>
            ELSE IF ds.c.n > 16 * ds.c.d THEN <<"alert.index_high">> ELSE <<>>
      \* L0 / Dm > 4  <=>  f > 4 Dm - H
      a6 == IF ds.Dm > 0 /\ RatGreaterInt(f, 4 * ds.Dm - q.H_charge)
              THEN <<"alert.guidance">> ELSE <<>>
      \* pitch < d  <=>  H - 2 nm d < n d
      a7 == IF t.n > 0 /\ 20 * q.H_charge - 4 * q.nm_reel * ds.d < t.n * ds.d
              THEN <<"alert.pitch", "alert.pitch_hint">> ELSE <<>>
  IN  a1 \o a2 \o a3 \o a4 \o a5 \o a6 \o a7

Translate(g, keys) == [i \in 1..Len(keys) |-> tr(g, keys[i])]

\* the keys of self._results in insertion order
ResultKeys ==
  <<"wireDiameter", "meanDiameter", "activeTurnsQty", "totalTurnsQty", "deadTurnsQty",
    "diameterType", "targetDiameter", "freeLength", "onLoadHight", "minHeight",
    "solidHeight", "activeTurnsHight", "deadTurnsHight", "minActiveTurnsHight",
    "maxActiveTurnsHight", "load", "loadType", "material", "extremeTurns", "grinded",
    "leftHanded">>

\* QComboBox: the currentTextChanged signals of clear(), addItems() and
\* setCurrentIndex() on a picklist showing old_text; none while blocked
combo_signals(blocked, old_text, picked) ==
  IF blocked THEN 0
  ELSE 2 + (IF picked.text # picked.items[1] THEN 1 ELSE 0)

\* a filter that rewrites the picklist with its signals open
filter_signals_open(old_text, picked) == combo_signals(FALSE, old_text, picked)

\* the signals of one call of _filter_diameters: it blocks those of inp_d
\* for the time of the rewrite (1920-1948)
filter_signals(old_text, picked) == combo_signals(TRUE, old_text, picked)

\* the signals of the calls of the loop, from call i on
RECURSIVE loop_signals(_, _, _)
loop_signals(old_text, trace, i) ==
  IF i > Len(trace) THEN 0
  ELSE filter_signals(old_text, trace[i]) + loop_signals(trace[i].text, trace, i + 1)

\* inp_d.currentTextChanged is connected to _recalc (1343): the signals a
\* recalculation emits are the recalculations started inside it
wire_events(w, lp, ds) ==
  loop_signals(w.inp_d.text, lp.trace, 1)
    + (IF ds.forced THEN filter_signals(lp.inp_d.text, ds.inp_d) ELSE 0)

\* _updating_diameter after a call: an early return leaves it, the finally
\* clause resets it (1906-1909, 1950-1951)
updating_after(w) == IF w.updating_diameter THEN w.updating_diameter ELSE FALSE

\* pct_travail (1602), without the factor 100
pct_travail(ds) ==
  IF RatPositive(ds.tau_adm_eff) THEN RatDiv(ds.tau_reel, ds.tau_adm_eff) ELSE RatInt(0)

\* the end of _recalc (1684-1729): the alert label and self._results.
\* out_d_mini is the reported minimum (its cube); last_loop keeps what the
\* loop did (locals of _recalc).  Heights with a part of f are kept as the
\* pair [H, f]: their value is H / 10 + f.
recalc_store(g, w, q, lp, ds, t, f, alerts) ==
  [w EXCEPT
    !.inp_d = ds.inp_d,
    !.updating_diameter = updating_after(w),
    !.lbl_alerts = IF alerts # <<>> THEN Translate(g, alerts)
                   ELSE <<tr(g, "calc.valid_design")>>,
    !.out_d_mini = ds.d_mini,
    !.last_loop = [iterations |-> Len(lp.trace), d |-> lp.d, items |-> lp.inp_d.items,
                   converged |-> lp.converged],
    !.last_calls = [text0 |-> w.inp_d.text, trace |-> lp.trace,
                    Dm |-> lp.Dm, forced |-> ds.forced,
                    wire_events |-> wire_events(w, lp, ds)],
    !.last_design = [c |-> ds.c, K |-> ds.K, Rm |-> ds.Rm, tau_adm |-> ds.tau_adm,
                     coef_k |-> ds.coef_k, tau_adm_eff |-> ds.tau_adm_eff,
                     tau_reel |-> ds.tau_reel, pct_travail |-> pct_travail(ds),
                     is_severe |-> q.is_severe, n |-> t.n,
                     R |-> spring_rate(q, ds.d, ds.Dm, t.n), f |-> f, alerts |-> alerts],
    !.results =
      [wireDiameter |-> ds.d, meanDiameter |-> ds.Dm,
       activeTurnsQty |-> t.n, totalTurnsQty |-> t.nt,
       deadTurnsQty |-> q.nm_reel,
       diameterType |-> q.diameter_type, targetDiameter |-> q.target_diameter,
       freeLength |-> [H |-> 10 * q.H_charge, f |-> f],
       onLoadHight |-> q.H_charge, minHeight |-> q.Lc_max,
       solidHeight |-> t.Lc_reel,
       activeTurnsHight |-> 10 * q.H_charge - 2 * q.nm_reel * ds.d,
       deadTurnsHight |-> q.nm_reel * ds.d,
       minActiveTurnsHight |-> t.n * ds.d,
       maxActiveTurnsHight |-> [H |-> 10 * q.H_charge - 2 * q.nm_reel * ds.d, f |-> f],
       load |-> q.F, loadType |-> q.service_name, material |-> q.matiere,
       extremeTurns |-> replace_underscore(q.end_type),
       grinded |-> t.is_ground,
       leftHanded |-> (w.inp_sens = 1)]]

recalc_heights(g, w, q, lp, ds, t, f) ==
  recalc_store(g, w, q, lp, ds, t, f, alerts_of(q, ds, t, f))

recalc_turns(g, w, q, lp, ds, t) ==
  recalc_heights(g, w, q, lp, ds, t, deflection(q, ds.d, ds.Dm, t.n))

recalc_design(g, w, q, lp, ds) == recalc_turns(g, w, q, lp, ds, turns(g, q, ds.d))

recalc_loop(g, w, q, lp, force_diameter_update) ==
  recalc_design(g, w, q, lp, design(g, w, q, lp, force_diameter_update))

recalc_inputs(g, w, q, force_diameter_update) ==
  recalc_loop(g, w, q, run_loop(g, w, q, force_diameter_update), force_diameter_update)

\* _recalc: the dialog after a recalculation
recalc(g, w, force_diameter_update) ==
  IF ~g.DB.loaded THEN w
  ELSE recalc_inputs(g, w, read_inputs(g, w), force_diameter_update)

-----------------------------------------------------------------------------
(* SpringCalculatorDialog: construction and the signal handlers.  A handler *)
(* is an operator from the dialog (the widget already holding the value the *)
(* user chose) to the dialog it leaves.                                     *)

\* the alert list of the last recalculation is non-empty
has_alerts(g, w) == w.lbl_alerts # <<tr(g, "calc.valid_design")>>

Contains(seq, x) == \E i \in 1..Len(seq) : seq[i] = x

\* QDoubleSpinBox.setValue on inp_nm with its valueChanged signal connected
\* to _recalc: the value is clamped, and a change recalculates
inp_nm_setValue(g, w, v) ==
  LET nv == Clamp(v, w.inp_nm.minimum, w.inp_nm.maximum)
  IN  IF nv = w.inp_nm.value THEN w
      ELSE recalc(g, [w EXCEPT !.inp_nm.value = nv], FALSE)

\* QDoubleSpinBox.setMinimum: a value below the new minimum is raised to it
inp_nm_setMinimum(g, w, m) ==
  IF w.inp_nm.value < m
    THEN recalc(g, [w EXCEPT !.inp_nm.minimum = m, !.inp_nm.value = m], FALSE)
    ELSE [w EXCEPT !.inp_nm.minimum = m]

\* a handler that leaves the dead turns as they are
on_end_type_changed_unclamped(g, w) == recalc(g, w, FALSE)

on_end_type_changed(g, w) ==
  LET end_type_key == w.inp_end_type
  IN  IF end_type_key \in {"COUPEES", "MEULEES"}
        THEN recalc(g, [inp_nm_setValue(g, w, 0) EXCEPT !.inp_nm.enabled = FALSE], FALSE)
        ELSE
          LET w1 == [w EXCEPT !.inp_nm.enabled = TRUE]
              nm_min == get_dead_coils_min(g.DB, end_type_key)
              w2 == IF w1.inp_nm.value < nm_min THEN inp_nm_setValue(g, w1, nm_min) ELSE w1
          IN  recalc(g, inp_nm_setMinimum(g, w2, nm_min), FALSE)

\* a handler that converts the target and does not store the new type
on_diameter_type_changed_unstored(g, w) ==
  LET old_type == w.previous_diameter_type
      new_type == w.inp_diameter_type
      d == w.inp_d.text
      Dm_actual == compute_Dm_from_target(w.inp_Dm, old_type, d)
      new_value == IF HasDi(new_type) THEN Dm_actual - d
                   ELSE IF HasDe(new_type) THEN Dm_actual + d
                   ELSE Dm_actual
  IN  IF old_type = new_type THEN w
      ELSE recalc(g, [w EXCEPT !.inp_Dm = inp_Dm_setValue(new_value)], FALSE)

on_diameter_type_changed(g, w) ==
  LET old_type == w.previous_diameter_type
      new_type == w.inp_diameter_type
      d == w.inp_d.text
      current_value == w.inp_Dm
      Dm_actual == IF HasDi(old_type) THEN current_value + d
                   ELSE IF HasDe(old_type) THEN current_value - d
                   ELSE current_value
      new_value == IF HasDi(new_type) THEN Dm_actual - d
                   ELSE IF HasDe(new_type) THEN Dm_actual + d
                   ELSE Dm_actual
  IN  IF old_type = new_type THEN w
      ELSE recalc(g, [w EXCEPT !.inp_Dm = inp_Dm_setValue(new_value),
                            !.previous_diameter_type = new_type], FALSE)

on_diameter_param_changed(g, w) == recalc(g, w, TRUE)
on_force_param_changed(g, w) == recalc(g, w, TRUE)
on_service_changed(g, w) == recalc(g, w, TRUE)

\* new_material is the material the selection dialog returned
open_material_dialog(g, w, new_material) ==
  IF new_material # w.current_material
    THEN recalc(g, [w EXCEPT !.current_material = new_material], TRUE)
    ELSE w

\* _setup_ui: the widgets with their initial values
setup_ui(g, spring_body) ==
  LET all_diameters == get_wire_diameters(g.DB)
      service_keys == IF get_work_type_list(g.DB) # <<>> THEN get_work_type_list(g.DB)
                      ELSE <<"SERVICE MOYEN - DYNAMIQUE LENT">>
      end_type_keys == IF get_end_type_list(g.DB) # <<>> THEN get_end_type_list(g.DB)
                       ELSE <<"RAPPROCHEES_MEULEES">>
  IN  [updating_diameter |-> FALSE,
       current_spring_body |-> (spring_body # None),
       parameters_changed |-> FALSE,
       result |-> "open",
       previous_diameter_type |-> tr(g, "calc.diameter_mean"),
       inp_diameter_type |-> tr(g, "calc.diameter_mean"),
       inp_Dm |-> 2000,
       current_material |-> "CORDE A PIANO",
       all_diameters |-> all_diameters,
       inp_d |-> [items |-> all_diameters,
                  text |-> IF Contains(all_diameters, 400) THEN 400 ELSE all_diameters[1]],
       service_keys |-> service_keys,
       inp_service |-> service_keys[1],
       inp_F |-> 3000,
       end_type_keys |-> end_type_keys,
       inp_end_type |-> IF Contains(end_type_keys, "RAPPROCHEES_MEULEES")
                          THEN "RAPPROCHEES_MEULEES" ELSE end_type_keys[1],
       inp_H_charge |-> 8000,
       inp_nm |-> [value |-> 30, minimum |-> 0, maximum |-> 100, enabled |-> TRUE],
       inp_Lc_max |-> 6000,
       inp_sens |-> 0,
       lbl_alerts |-> <<>>,
       out_d_mini |-> RatInt(0),
       last_loop |-> [iterations |-> 0, d |-> 0, items |-> <<>>, converged |-> FALSE],
       last_calls |-> None,
       last_design |-> None,
       results |-> EmptyDict]

\* str.replace(" ", "_") on the stored end type
replace_space(extremeTurns) ==
  CASE extremeTurns = "RAPPROCHEES MEULEES" -> "RAPPROCHEES_MEULEES"
    [] OTHER -> extremeTurns

\* _populate_from_spring_body: signals are blocked while the widgets are set
\* the widgets after the try block of _populate_from_spring_body and the
\* update of the previous type (1742-1803)
populate_widgets(g, w, b) ==
  LET has(k) == k \in DOMAIN b
      w1 == [w EXCEPT
        !.inp_diameter_type =
            IF has("diameterType") /\ Contains(DiameterTypes(g), b.diameterType)
              THEN b.diameterType ELSE @,
        !.inp_Dm =
            IF has("targetDiameter") /\ b.targetDiameter > 0
              THEN inp_Dm_setValue(b.targetDiameter)
            ELSE IF has("meanDiameter") THEN inp_Dm_setValue(b.meanDiameter) ELSE @,
        !.inp_d.text = IF has("wireDiameter") THEN b.wireDiameter ELSE @,
        !.inp_F = IF has("load") THEN Clamp(b.load, 1, 1000000) ELSE @,
        !.inp_H_charge = IF has("onLoadHight") THEN Clamp(b.onLoadHight, 100, 100000) ELSE @,
        !.inp_Lc_max = IF has("minHeight") THEN Clamp(b.minHeight, 100, 50000) ELSE @,
        !.current_material =
            IF has("material") /\ b.material \in get_material_list(g.DB) THEN b.material ELSE @,
        !.inp_service =
            IF has("loadType") /\ Contains(w.service_keys, b.loadType) THEN b.loadType ELSE @,
        !.inp_end_type =
            IF has("extremeTurns") /\ Contains(w.end_type_keys, replace_space(b.extremeTurns))
              THEN replace_space(b.extremeTurns) ELSE @,
        !.inp_nm.value =
            IF has("deadTurnsQty")
              THEN Clamp(b.deadTurnsQty, w.inp_nm.minimum, w.inp_nm.maximum) ELSE @,
        !.inp_sens = IF has("leftHanded") THEN (IF b.leftHanded THEN 1 ELSE 0) ELSE @]
  IN  [w1 EXCEPT !.previous_diameter_type = w1.inp_diameter_type]

populate_from_spring_body(g, w, b) == recalc(g, populate_widgets(g, w, b), FALSE)

\* __init__ (DB.load_all has run)
init_dialog(g, spring_body) ==
  LET w0 == setup_ui(g, spring_body)
      w1 == [w0 EXCEPT !.previous_diameter_type = w0.inp_diameter_type]
      w2 == IF spring_body # None THEN populate_from_spring_body(g, w1, spring_body) ELSE w1
  IN  on_end_type_changed(g, w2)

-----------------------------------------------------------------------------
(* The spring Body: its properties (SpringFullDataModule) in the model's    *)
(* units, and _apply_and_close.                                             *)

DefaultBody ==
  [load |-> 3000, loadType |-> "SERVICE MOYEN - DYNAMIQUE LENT",
   extremeTurns |-> "RAPPROCHEES MEULEES",
   internalDiameter |-> 1600, meanDiameter |-> 2000, externalDiameter |-> 2400,
   onLoadHight |-> 8823, freeLength |-> [H |-> 100000, f |-> RatInt(0)],
   material |-> "CORDE A PIANO", wireDiameter |-> 400,
   activeTurnsQty |-> 180, deadTurnsQty |-> 10, totalTurnsQty |-> 52,
   activeTurnsHight |-> 64230, deadTurnsHight |-> 12000,
   minActiveTurnsHight |-> 72000,
   maxActiveTurnsHight |-> [H |-> 64230, f |-> RatInt(0)],
   minHeight |-> 6000, solidHeight |-> 22000,
   grinded |-> TRUE, leftHanded |-> FALSE,
   diameterType |-> "Dm (moyen)", targetDiameter |-> 2000]

\* a Body created before diameterType and targetDiameter existed
LegacyBody ==
  [k \in DOMAIN DefaultBody \ {"diameterType", "targetDiameter"} |-> DefaultBody[k]]

\* stored designs the dialog is opened on
OuterBody ==
  [DefaultBody EXCEPT !.diameterType = "De (exterieur)", !.targetDiameter = 500,
                      !.wireDiameter = 100, !.load = 1]
SmallBody ==
  [DefaultBody EXCEPT !.targetDiameter = 150, !.wireDiameter = 100, !.load = 1]
OddWireBody ==
  [DefaultBody EXCEPT !.wireDiameter = 320, !.load = 100,
                      !.extremeTurns = "RAPPROCHEES", !.deadTurnsQty = 5]

\* setattr over self._results in order; the fail_at-th key raises (0: none)
RECURSIVE write_results(_, _, _, _)
write_results(b, results, i, fail_at) ==
  IF i > Len(ResultKeys) THEN [body |-> b, raised |-> FALSE]
  ELSE IF ResultKeys[i] \in DOMAIN b
    THEN IF i = fail_at THEN [body |-> b, raised |-> TRUE]
         ELSE write_results([b EXCEPT ![ResultKeys[i]] = results[ResultKeys[i]]],
                            results, i + 1, fail_at)
  ELSE write_results(b, results, i + 1, fail_at)

\* the two derived diameters; a failure of either write is swallowed
write_derived(b, results, derived_fail) ==
  LET d == results.wireDiameter
      Dm == results.meanDiameter
      b1 == IF "internalDiameter" \in DOMAIN b /\ "internalDiameter" \notin derived_fail
              THEN [b EXCEPT !.internalDiameter = Dm - d] ELSE b
  IN  IF "externalDiameter" \in DOMAIN b1 /\ "externalDiameter" \notin derived_fail
        THEN [b1 EXCEPT !.externalDiameter = Dm + d] ELSE b1

\* _apply_and_close: reply is the user's answer if asked; raised tells
\* whether a write of a property raised (caught at 1872, or swallowed at
\* 1853 and 1862)
apply_and_close(w, b, reply, fail_at, derived_fail) ==
  IF ~w.current_spring_body
    THEN [self |-> w, body |-> b, asked |-> FALSE, outcome |-> "no_body", raised |-> FALSE]
  ELSE
    LET asked == \E i \in 1..Len(w.lbl_alerts) : HasWarningSign(w.lbl_alerts[i])
        wr == write_results(b, w.results, 1, fail_at)
    IN  IF asked /\ reply # "Yes"
          THEN [self |-> w, body |-> b, asked |-> TRUE, outcome |-> "declined",
                raised |-> FALSE]
        ELSE IF wr.raised
          THEN [self |-> w, body |-> wr.body, asked |-> asked, outcome |-> "error",
                raised |-> TRUE]
        ELSE [self |-> [w EXCEPT !.parameters_changed = TRUE, !.result = "accepted"],
              body |-> write_derived(wr.body, w.results, derived_fail),
              asked |-> asked, outcome |-> "applied",
              raised |-> (derived_fail \cap DOMAIN wr.body # {})]

has_changes(w) == w.parameters_changed

-----------------------------------------------------------------------------
(* The state machine: one dialog session.  hist records the last event, the *)
(* number of events so far, whether the last apply asked to confirm,        *)
(* whether a property write of the last apply raised, and the design shown  *)
(* before the last event.                                                   *)

\* the module globals the dialog reads
Globals == [DB |-> DB, translations |-> translations]

MaxEvents == 2

Targets == {150, 500, 2000, 50000}
Loads == {1, 588, 589, 3000}
DeadTurns == {0, 5, 10, 15, 30}
Heights == {1000, 8000}
SolidLengths == {100, 1000}

\* the sessions: data base files found, locale found, Body the dialog opens on
Sessions ==
  {<<"std", "loaded", None>>, <<"std", "loaded", DefaultBody>>,
   <<"std", "missing", DefaultBody>>, <<"std", "loaded", LegacyBody>>,
   <<"none", "loaded", OuterBody>>, <<"none", "loaded", SmallBody>>,
   <<"none", "missing", None>>, <<"localized", "loaded", OddWireBody>>,
   <<"zero", "loaded", DefaultBody>>}

Init ==
  \E s \in Sessions :
    /\ DB = load_all(s[1])
    /\ translations = s[2]
    /\ body = s[3]
    /\ self = init_dialog([DB |-> load_all(s[1]), translations |-> s[2]], s[3])
    /\ hist = [last |-> "init", events |-> 0, asked |-> FALSE, raised |-> FALSE,
               prev |-> None]

\* the design the dialog shows
Shown(w) ==
  [type |-> w.inp_diameter_type, target |-> w.inp_Dm,
   Dm |-> w.results.meanDiameter, d |-> w.results.wireDiameter,
   converged |-> w.last_loop.converged]

Open == self.result = "open" /\ hist.events < MaxEvents

Event(name) ==
  hist' = [last |-> name, events |-> hist.events + 1, asked |-> FALSE, raised |-> FALSE,
           prev |-> Shown(self)]

OnDiameterParamChanged ==
  /\ Open
  /\ \E v \in Targets :
       /\ v # self.inp_Dm
       /\ self' = on_diameter_param_changed(Globals, [self EXCEPT !.inp_Dm = v])
  /\ Event("target")
  /\ UNCHANGED <<DB, translations, body>>

OnForceParamChanged ==
  /\ Open
  /\ \E F \in Loads :
       /\ F # self.inp_F
       /\ self' = on_force_param_changed(Globals, [self EXCEPT !.inp_F = F])
  /\ Event("load")
  /\ UNCHANGED <<DB, translations, body>>

OnServiceChanged ==
  /\ Open
  /\ \E i \in 1..Len(self.service_keys) :
       /\ self.service_keys[i] # self.inp_service
       /\ self' = on_service_changed(Globals, [self EXCEPT !.inp_service = self.service_keys[i]])
  /\ Event("service")
  /\ UNCHANGED <<DB, translations, body>>

OpenMaterialDialog ==
  /\ Open
  /\ \E m \in get_material_list(DB) :
       /\ m # self.current_material
       /\ self' = open_material_dialog(Globals, self, m)
  /\ Event("material")
  /\ UNCHANGED <<DB, translations, body>>

OnDiameterTypeChanged ==
  /\ Open
  /\ \E i \in 1..Len(DiameterTypes(Globals)) :
       /\ DiameterTypes(Globals)[i] # self.inp_diameter_type
       /\ self' = on_diameter_type_changed(Globals, [self EXCEPT !.inp_diameter_type = DiameterTypes(Globals)[i]])
  /\ Event("type")
  /\ UNCHANGED <<DB, translations, body>>

\* the user picks another entry of the wire picklist
OnWireChanged ==
  /\ Open
  /\ \E i \in 1..Len(self.inp_d.items) :
       /\ self.inp_d.items[i] # self.inp_d.text
       /\ self' = recalc(Globals, [self EXCEPT !.inp_d.text = self.inp_d.items[i]], FALSE)
  /\ Event("wire")
  /\ UNCHANGED <<DB, translations, body>>

OnSensChanged ==
  /\ Open
  /\ self' = recalc(Globals, [self EXCEPT !.inp_sens = 1 - @], FALSE)
  /\ Event("sens")
  /\ UNCHANGED <<DB, translations, body>>

OnHeightChanged ==
  /\ Open
  /\ \E H \in Heights :
       /\ H # self.inp_H_charge
       /\ self' = recalc(Globals, [self EXCEPT !.inp_H_charge = H], FALSE)
  /\ Event("height")
  /\ UNCHANGED <<DB, translations, body>>

\* the user edits the maximum solid length (inp_Lc_max, range 1.0 to 500.0)
OnSolidLengthChanged ==
  /\ Open
  /\ \E Lc \in SolidLengths :
       /\ Lc # self.inp_Lc_max
       /\ self' = recalc(Globals, [self EXCEPT !.inp_Lc_max = Lc], FALSE)
  /\ Event("solid_length")
  /\ UNCHANGED <<DB, translations, body>>

OnEndTypeChanged ==
  /\ Open
  /\ \E i \in 1..Len(self.end_type_keys) :
       /\ self.end_type_keys[i] # self.inp_end_type
       /\ self' = on_end_type_changed(Globals, [self EXCEPT !.inp_end_type = self.end_type_keys[i]])
  /\ Event("end_type")
  /\ UNCHANGED <<DB, translations, body>>

\* the user edits the dead turns: the spin box keeps the value in its range
OnDeadTurnsChanged ==
  /\ Open
  /\ self.inp_nm.enabled
  /\ \E v \in DeadTurns :
       /\ Clamp(v, self.inp_nm.minimum, self.inp_nm.maximum) # self.inp_nm.value
       /\ self' = inp_nm_setValue(Globals, self, v)
  /\ Event("dead_turns")
  /\ UNCHANGED <<DB, translations, body>>

Apply ==
  /\ Open
  /\ \E reply \in {"Yes", "No"}, fail_at \in 0..Len(ResultKeys),
        derived_fail \in SUBSET {"internalDiameter", "externalDiameter"} :
       LET r == apply_and_close(self, body, reply, fail_at, derived_fail)
       IN  /\ self' = r.self
           /\ body' = r.body
           /\ hist' = [last |-> r.outcome, events |-> hist.events + 1, asked |-> r.asked,
                      raised |-> r.raised, prev |-> Shown(self)]
  /\ UNCHANGED <<DB, translations>>

Cancel ==
  /\ Open
  /\ self' = [self EXCEPT !.result = "rejected"]
  /\ Event("cancel")
  /\ UNCHANGED <<DB, translations, body>>

\* sizing events
Next ==
  \/ OnDiameterParamChanged
  \/ OnForceParamChanged
  \/ OnServiceChanged
  \/ OpenMaterialDialog
  \/ OnDiameterTypeChanged
  \/ OnWireChanged
  \/ OnSensChanged

Spec == Init /\ [][Next]_vars

\* end types and dead turns
NextEnds ==
  \/ OnEndTypeChanged
  \/ OnDeadTurnsChanged
  \/ OnHeightChanged
  \/ OnSolidLengthChanged
  \/ OnWireChanged

SpecEnds == Init /\ [][NextEnds]_vars

\* a session up to Apply or Cancel
NextApply ==
  \/ OnForceParamChanged
  \/ OnDiameterTypeChanged
  \/ OnEndTypeChanged
  \/ OpenMaterialDialog
  \/ OnSensChanged
  \/ Apply
  \/ Cancel

SpecApply == Init /\ [][NextApply]_vars

-----------------------------------------------------------------------------
(* Properties.                                                              *)

Mean(g) == tr(g, "calc.diameter_mean")
Inner(g) == tr(g, "calc.diameter_inner")

\* C1: the convergence loop of every recalculation runs at most
\* max_iterations iterations, and the wire diameter it ends with is an entry
\* of the picklist as filtered in that loop, which holds entries of the wire
\* table only.
C1_LoopBoundedOnTable ==
  /\ self.last_loop.iterations <= max_iterations
  /\ Contains(self.last_loop.items, self.last_loop.d)
  /\ \A i \in 1..Len(self.last_loop.items) :
       Contains(self.all_diameters, self.last_loop.items[i])

\* a forced recalculation whose loop used all its iterations without
\* converging, and still ended on a wire of the table
C1_Witness ==
  /\ hist.last = "target"
  /\ self.last_loop.iterations = max_iterations
  /\ ~self.last_loop.converged
  /\ Contains(self.all_diameters, self.last_loop.d)

\* C2: after a switch of the diameter type, the mean diameter and the wire
\* diameter of the design are those of the design before the switch.
C2_TypeSwitchKeepsDesign ==
  hist.last = "type" =>
    /\ self.results.meanDiameter = hist.prev.Dm
    /\ self.results.wireDiameter = hist.prev.d

\* C3: switching the type from mean to inner and back to mean, the wire
\* diameter staying the same, gives back the mean diameter and the displayed
\* target the design had before the two switches.
C3_RoundTripMeanInnerMean ==
  [][(/\ hist.last = "type" /\ hist'.last = "type"
      /\ hist.prev.type = Mean(Globals)
      /\ self.inp_diameter_type = Inner(Globals)
      /\ self'.inp_diameter_type = Mean(Globals)
      /\ hist.prev.d = self.results.wireDiameter
      /\ self'.results.wireDiameter = self.results.wireDiameter)
     => (/\ self'.results.meanDiameter = hist.prev.Dm
         /\ self'.inp_Dm = hist.prev.target)]_vars

\* C4: a recalculation with no forced reset and unchanged sizing inputs (the
\* winding direction is toggled), run on the pair (d, Dm) a recalculation
\* whose loop converged ended with, changes neither d nor Dm.
C4_RecalcIdempotent ==
  (hist.last = "sens" /\ hist.prev.converged) =>
    /\ self.results.wireDiameter = hist.prev.d
    /\ self.results.meanDiameter = hist.prev.Dm

\* C5: of two recalculations after a change of the load that differ only in
\* the load F, the one with the larger F never reports the smaller d_min.
C5_MinimumMonotoneInLoad ==
  [][hist'.last = "load" =>
       \A F \in Loads :
         F > self'.inp_F =>
           RatGE(on_force_param_changed(Globals, [self EXCEPT !.inp_F = F]).out_d_mini,
                 self'.out_d_mini)]_vars

\* C6: the dead turns per end of the design are 0 for the end types COUPEES
\* and MEULEES whatever the dead turns requested, and at least the minimum of
\* the end type for RAPPROCHEES and RAPPROCHEES_MEULEES.
C6_DeadTurnsByEndType ==
  /\ self.inp_end_type \in {"COUPEES", "MEULEES"} => self.results.deadTurnsQty = 0
  /\ self.inp_end_type \in {"RAPPROCHEES", "RAPPROCHEES_MEULEES"} =>
       self.results.deadTurnsQty >= get_dead_coils_min(DB, self.inp_end_type)

\* cut ends chosen while the spin box still holds dead turns, after closed
\* ends whose minimum had been raised
C6_Witness ==
  /\ hist.last = "end_type"
  /\ hist.events = MaxEvents
  /\ self.inp_end_type = "COUPEES"
  /\ self.inp_nm.value > 0
  /\ self.results.deadTurnsQty = 0

\* C7: whenever the alert list of the last recalculation is non-empty, apply
\* asks for a confirmation; when the user declines, no Body property is
\* written, parameters_changed stays False and the dialog is not accepted.
C7_ApplyAsksOnAlerts ==
  [][(hist'.last \in {"declined", "error", "applied"} /\ has_alerts(Globals, self))
     => (/\ hist'.asked
         /\ hist'.last = "declined" =>
              (body' = body /\ ~self'.parameters_changed /\ self'.result # "accepted"))]_vars

\* C8: an apply that fails leaves the Body with the values it had before; an
\* apply that succeeds writes every result the Body has a property for.
C8_ApplyAllOrNothing ==
  [][/\ hist'.last = "error" => body' = body
     /\ hist'.last = "applied" =>
          \A i \in 1..Len(ResultKeys) :
            ResultKeys[i] \in DOMAIN body =>
              body'[ResultKeys[i]] = self.results[ResultKeys[i]]]_vars

\* C9: the Body changes only in a step that is a completed apply: no input
\* change, no recalculation and no Cancel modifies it.
C9_BodyChangesOnlyOnApply ==
  [][body' # body => hist'.last = "applied"]_vars

UnknownMaterials == {"TITANE", ""}
UnknownEndTypes == {"NON_RAPPROCHEES", ""}
ServiceKeys == {"medium_dynamic", "severe_dynamic", "static"}
WireSamples == {50, 320, 600, 1200}

\* the entry of a dict, the empty dict when the key is absent
Entry(mat, field) == get(mat, field, EmptyDict)

\* a material of the data base that lacks the field the lookup reads
Lacks(mat, field) == field \notin DOMAIN mat

\* C10: for an unknown material get_module_G is 8150, get_Rm 150,
\* get_stress_factor 0.40 and get_set_solid_factor 0.80, for an unknown end
\* type get_dead_coils_min is 2.0, and a material or end type that exists
\* but lacks the field or the table looked up gets the same values.
C10_LookupDefaults ==
  /\ \A m \in UnknownMaterials :
       /\ get_module_G(DB, m) = 8150
       /\ \A d \in WireSamples : get_Rm(DB, m, d) = 150
       /\ \A k \in ServiceKeys : get_stress_factor(DB, m, k) = 40
       /\ get_set_solid_factor(DB, m) = 80
  /\ \A e \in UnknownEndTypes : get_dead_coils_min(DB, e) = 20
  /\ \A m \in get_material_list(DB) :
       LET mat == get_material(DB, m)
       IN  /\ Lacks(Entry(mat, "shear_modulus_G"), "value_daN") =>
                get_module_G(DB, m) = 8150
           /\ Lacks(Entry(mat, "tensile_strength_Rm"), "table") =>
                \A d \in WireSamples : get_Rm(DB, m, d) = 150
           /\ \A k \in ServiceKeys :
                Lacks(Entry(Entry(mat, "stress_limits"), k), "factor") =>
                  get_stress_factor(DB, m, k) = 40
           /\ Lacks(Entry(Entry(mat, "stress_limits"), "set_solid"), "factor") =>
                get_set_solid_factor(DB, m) = 80
  /\ \A e \in DOMAIN get_end_types(DB) :
       Lacks(Entry(get_end_types(DB)[e], "dead_coils"), "minimum") =>
         get_dead_coils_min(DB, e) = 20

\* the dialog sized a spring of a material that has no Rm table and no stress
\* limits, so the recalculation ran on the defaults
C10_Witness ==
  /\ hist.last = "material"
  /\ self.current_material \in get_material_list(DB)
  /\ Lacks(get_material(DB, self.current_material), "stress_limits")
  /\ Lacks(get_material(DB, self.current_material), "tensile_strength_Rm")
  /\ self.results.material = self.current_material

RatEq(a, b) == ~RatLess(a, b) /\ ~RatLess(b, a)

\* spring indexes n / d with n in 0..IndexGrid and d in 1..IndexGrid
IndexGrid == 8

Indexes == {[n |-> n, d |-> d] : n \in 0..IndexGrid, d \in 1..IndexGrid}

\* K of an index satisfies the definition of the Bergstrasser factor
IsBergstrasser(c, K) ==
  IF 4 * c.n <= 3 * c.d
    THEN RatEq(K, RatInt(2))
    ELSE /\ RatEq(RatMul(K, [n |-> <<4 * c.n - 3 * c.d>>, d |-> <<4 * c.d>>]),
                  [n |-> <<2 * c.n + c.d>>, d |-> <<2 * c.d>>])
         /\ RatGE(K, RatInt(1))

\* C11: get_coef_bergstrasser is 2 for every index c <= 0.75, in particular
\* at 0.75 and 0.5, and (c + 0.5) / (c - 0.75) otherwise, which is at least 1;
\* the K of every design is that of its index.
C11_BergstrasserFactor ==
  /\ \A c \in Indexes : IsBergstrasser(c, get_coef_bergstrasser(c))
  /\ RatEq(get_coef_bergstrasser([n |-> 3, d |-> 4]), RatInt(2))
  /\ RatEq(get_coef_bergstrasser([n |-> 1, d |-> 2]), RatInt(2))
  /\ IsBergstrasser(self.last_design.c, self.last_design.K)

\* a design of index between 0.75 and 1 (the loop stopped on a mean diameter
\* below the wire diameter), whose K is above 1
C11_Witness ==
  /\ 4 * self.last_design.c.n > 3 * self.last_design.c.d
  /\ self.last_design.c.n < self.last_design.c.d
  /\ RatLess(RatInt(1), self.last_design.K)

\* the inputs of the last recalculation (a recalculation changes none)
Inputs == read_inputs(Globals, self)

\* the d_mini (cubed) an iteration of the loop computed for its pair (d, Dm)
MiniOf(call) ==
  sizing(Globals, Inputs.matiere, Inputs.stress_factor, Inputs.is_severe, Inputs.F,
         call.d, call.Dm).d_mini

Qualifies(table, d_mini3) == {i \in 1..Len(table) : AtLeast(table[i], d_mini3)}

\* items is the picklist the filter must leave for the table and d_mini
IsPicklist(items, table, d_mini3) ==
  /\ items # <<>>
  /\ IF Qualifies(table, d_mini3) # {}
       THEN /\ Len(items) = Cardinality(Qualifies(table, d_mini3))
            /\ \A i \in 1..Len(items) :
                 /\ Contains(table, items[i])
                 /\ AtLeast(items[i], d_mini3)
                 /\ i > 1 => items[i - 1] < items[i]
       ELSE /\ Len(items) = (IF Len(table) < 5 THEN Len(table) ELSE 5)
            /\ \A i \in 1..Len(items) : items[i] = table[Len(table) - Len(items) + i]

\* the calls of _filter_diameters in the loop of the last recalculation
Calls == self.last_calls.trace

\* C12: with a non-empty wire table, every call of _filter_diameters (those
\* of the loop and the forced one after it) leaves a non-empty picklist: the
\* table diameters >= d_min in table order, or the last five entries of the
\* table (all of it if shorter) when no diameter qualifies.
C12_PicklistNeverEmpty ==
  self.all_diameters # <<>> =>
    /\ \A i \in 1..Len(Calls) :
         IsPicklist(Calls[i].items, self.all_diameters, MiniOf(Calls[i]))
    /\ self.last_calls.forced =>
         IsPicklist(self.inp_d.items, self.all_diameters, self.out_d_mini)
    /\ self.inp_d.items # <<>>

\* a load too high for every wire of the table: the picklist is the last five
C12_Witness ==
  /\ hist.last = "load"
  /\ Qualifies(self.all_diameters, self.out_d_mini) = {}
  /\ Len(self.all_diameters) > 5
  /\ Len(self.inp_d.items) = 5

Design == self.last_design

\* C13: when the service maps to the stress key severe_dynamic the design has
\* coef_k = K and tau_adm_eff = tau_adm / K, below tau_adm whenever
\* tau_adm > 0; for every other service tau_adm_eff = tau_adm and coef_k = 1;
\* the utilization is tau_real / tau_adm_eff with that corrected stress.
C13_SevereServiceCorrection ==
  /\ Design.is_severe = (get_stress_factor_key(DB, self.inp_service) = "severe_dynamic")
  /\ RatEq(Design.tau_adm, [n |-> <<Design.Rm, Inputs.stress_factor>>, d |-> <<100>>])
  /\ Design.is_severe =>
       /\ RatEq(Design.coef_k, Design.K)
       /\ RatEq(RatMul(Design.tau_adm_eff, Design.K), Design.tau_adm)
       /\ RatPositive(Design.tau_adm) => RatLess(Design.tau_adm_eff, Design.tau_adm)
  /\ ~Design.is_severe =>
       /\ RatEq(Design.coef_k, RatInt(1))
       /\ RatEq(Design.tau_adm_eff, Design.tau_adm)
  /\ RatPositive(Design.tau_adm_eff) =>
       RatEq(RatMul(Design.pct_travail, Design.tau_adm_eff), Design.tau_reel)

\* the severe service has just been chosen and lowered the allowable stress
C13_Witness ==
  /\ hist.last = "service"
  /\ Design.is_severe
  /\ RatPositive(Design.tau_adm)
  /\ RatLess(Design.tau_adm_eff, Design.tau_adm)
  /\ RatPositive(Design.pct_travail)

\* C14: when the computed d_min does not exceed the smallest diameter of the
\* table, a recalculation triggered by a change of the load or of the target
\* selects the smallest table diameter and raises no overstress alert.
C14_LightLoadSmallestWire ==
  (/\ hist.last \in {"load", "target"}
   /\ AtLeast(self.all_diameters[1], self.out_d_mini))
  => /\ self.results.wireDiameter = self.all_diameters[1]
     /\ ~Contains(Design.alerts, "alert.stress")

\* C15: recalculations are serial: the rewrites of the picklist by
\* _filter_diameters during a recalculation emit no wire-diameter change, so
\* no recalculation starts inside another one, and _updating_diameter is
\* False after every call.
C15_RecalculationsSerial ==
  /\ self.last_calls.wire_events = 0
  /\ ~self.updating_diameter

\* a recalculation whose filter calls rewrote the picklist and moved the
\* selection, the case where an open picklist would have signalled
C15_Witness ==
  /\ hist.last = "load"
  /\ Len(Calls) > 1
  /\ self.last_calls.text0 # self.inp_d.text
  /\ self.inp_d.items # self.all_diameters
  /\ self.last_calls.wire_events = 0

\* a fraction whose denominator is not 0
Defined(r) == \A i \in 1..Len(r.d) : r.d[i] # 0

IsZero(r) == Defined(r) /\ ~RatPositive(r)

\* the stresses of the last inputs for a wire d, a mean diameter Dm, a load F
StressAt(F, d, Dm) ==
  sizing(Globals, Inputs.matiere, Inputs.stress_factor, Inputs.is_severe, F, d, Dm)

\* the turn counts of the last design
Turns == turns(Globals, Inputs, self.results.wireDiameter)

\* C16: no division of the sizing is by 0 and every guard yields 0: tau_real
\* is 0 when d <= 0, the utilization is 0 when tau_adm_eff <= 0, the rate R
\* is 0 when Dm <= 0 or n <= 0, the deflection f is 0 when R <= 0, d_min is 0
\* unless tau_adm_eff, Dm and F are all > 0, and the pitch is only evaluated
\* when n > 0.
C16_DivisionsGuarded ==
  LET d == self.results.wireDiameter
      Dm == self.results.meanDiameter
  IN  /\ Defined(Design.K) /\ Defined(Design.tau_adm_eff) /\ Defined(Design.tau_reel)
      /\ Defined(Design.pct_travail) /\ Defined(Design.R) /\ Defined(Design.f)
      /\ Defined(self.out_d_mini)
      /\ \A i \in 1..Len(Calls) : Defined(MiniOf(Calls[i]))
      /\ ~RatPositive(Design.tau_adm_eff) => IsZero(Design.pct_travail)
      /\ ~RatPositive(Design.R) => IsZero(Design.f)
      /\ ~(RatPositive(Design.tau_adm_eff) /\ Dm > 0 /\ Inputs.F > 0)
           => (~self.last_calls.forced => IsZero(self.out_d_mini))
      /\ IsZero(StressAt(Inputs.F, 0, Dm).tau_reel)
      /\ IsZero(StressAt(Inputs.F, d, 0).d_mini)
      /\ IsZero(StressAt(0, d, Dm).d_mini)
      /\ IsZero(spring_rate(Inputs, d, 0, Design.n))
      /\ IsZero(spring_rate(Inputs, d, Dm, 0))
      /\ IsZero(deflection(Inputs, d, 0, Design.n))
      /\ IsZero(deflection(Inputs, d, Dm, 0))
      /\ ~Contains(alerts_of(Inputs, [d |-> d, Dm |-> Dm, c |-> Design.c,
                                      d_mini |-> self.out_d_mini,
                                      tau_adm_eff |-> Design.tau_adm_eff,
                                      tau_reel |-> Design.tau_reel],
                             [Turns EXCEPT !.n = 0], Design.f),
                   "alert.pitch")

\* a material with a shear modulus and stress factors of 0: the allowable
\* stress and the rate are 0, and so are d_min, the utilization and f
C16_Witness ==
  /\ hist.last = "load"
  /\ IsZero(Design.tau_adm_eff)
  /\ IsZero(Design.R)
  /\ IsZero(self.out_d_mini)
  /\ IsZero(Design.pct_travail)
  /\ IsZero(Design.f)
  /\ RatPositive(Design.tau_reel)

C18_MeanAboveWire ==
  /\ self.results.meanDiameter > self.results.wireDiameter
  /\ Design.c.n > Design.c.d
  /\ self.results.meanDiameter - self.results.wireDiameter > 0

\* C19: whenever F > 0 and tau_adm_eff > 0, the overstress alert is raised
\* exactly when the wire-diameter alert is raised; a design whose d is >= the
\* reported d_min is not overstressed.
C19_StressAlertIffWireAlert ==
  (Inputs.F > 0 /\ RatPositive(Design.tau_adm_eff)) =>
    /\ Contains(Design.alerts, "alert.stress") = Contains(Design.alerts, "alert.wire_diameter")
    /\ AtLeast(self.results.wireDiameter, self.out_d_mini) =>
         ~RatLess(Design.tau_adm_eff, Design.tau_reel)


\* the wire selected when the i-th call of _filter_diameters of the loop began
Previous(i) == IF i = 1 THEN self.last_calls.text0 ELSE Calls[i - 1].text

\* C20: a call of _filter_diameters that does not force the minimum keeps the
\* wire selected before it when that wire is >= d_min and is in the filtered
\* list, and selects the smallest listed wire otherwise; the forced call
\* always selects the smallest listed wire.
C20_SelectionRule ==
  /\ \A i \in 1..Len(Calls) :
       IF AtLeast(Previous(i), MiniOf(Calls[i])) /\ Contains(Calls[i].items, Previous(i))
         THEN Calls[i].text = Previous(i)
         ELSE Calls[i].text = Calls[i].items[1]
  /\ self.last_calls.forced => self.inp_d.text = self.inp_d.items[1]

\* the user has picked a wire above the smallest of the list and the loop has
\* kept it
C20_Witness ==
  /\ hist.last = "wire"
  /\ ~self.last_calls.forced
  /\ Len(Calls) >= 1
  /\ Calls[1].text = self.last_calls.text0
  /\ Calls[1].text # Calls[1].items[1]
  /\ self.inp_d.text = Calls[1].text

\* the recalculations the handlers force (1348-1358, 1436)
ForcedEvents == {"target", "load", "service", "material"}

\* C21: after a forced recalculation (change of the target, the load, the
\* service or the material) the wire of the design is the smallest diameter of
\* the table that is >= the reported d_min, when there is one, whatever wire
\* was selected before.
C21_ForcedSelectsSmallestQualifying ==
  /\ hist.last \in ForcedEvents => self.last_calls.forced
  /\ (self.last_calls.forced /\ Qualifies(self.all_diameters, self.out_d_mini) # {}) =>
       /\ Contains(self.all_diameters, self.results.wireDiameter)
       /\ AtLeast(self.results.wireDiameter, self.out_d_mini)
       /\ \A i \in Qualifies(self.all_diameters, self.out_d_mini) :
            self.all_diameters[i] >= self.results.wireDiameter
       /\ self.inp_d.text = self.results.wireDiameter

\* a forced recalculation has replaced a larger wire by the smallest qualifying
\* one, which is not the smallest of the table
C21_Witness ==
  /\ hist.last \in ForcedEvents
  /\ self.last_calls.forced
  /\ self.results.wireDiameter < hist.prev.d
  /\ self.results.wireDiameter > self.all_diameters[1]
  /\ AtLeast(self.results.wireDiameter, self.out_d_mini)

\* C22: for d > 0, nt_quarter = floor(4 Lc_max / d) / 4; a ground end type has
\* nt = nt_quarter and Lc_real = nt d, the others nt = nt_quarter - 1 and
\* Lc_real = (nt + 1) d; the active turns are n = max(0.5, nt - 2 nm_real),
\* never below half a turn.  (nt in quarter turns, nm in tenths, n in
\* twentieths, Lc_real in quarters of the length unit.)
C22_TurnCounts ==
  LET d     == self.results.wireDiameter
      nt    == self.results.totalTurnsQty
      nt_quarter == IF self.results.grinded THEN nt ELSE nt + 4
      n     == self.results.activeTurnsQty
  IN  d > 0 =>
        /\ self.results.grinded = is_ground_type(DB, Inputs.end_type)
        /\ nt_quarter * d <= 4 * Inputs.Lc_max
        /\ 4 * Inputs.Lc_max < (nt_quarter + 1) * d
        /\ self.results.solidHeight = nt_quarter * d
        /\ self.results.grinded => self.results.solidHeight = nt * d
        /\ ~self.results.grinded => self.results.solidHeight = (nt + 4) * d
        /\ n >= 10
        /\ n >= 5 * nt - 4 * Inputs.nm_reel
        /\ n = 10 \/ n = 5 * nt - 4 * Inputs.nm_reel
        /\ Design.n = n

\* a solid length shorter than one turn of a non-ground spring: nt is below
\* 0 and the active turns are held at half a turn
C22_Witness ==
  /\ hist.last = "solid_length"
  /\ ~self.results.grinded
  /\ self.results.wireDiameter > 0
  /\ self.results.totalTurnsQty < 0
  /\ self.results.activeTurnsQty = 10
  /\ 5 * self.results.totalTurnsQty - 4 * Inputs.nm_reel < 10

\* Rm tables for the lookup: the one of the piano wire, one whose rows
\* overlap, one with a gap between its rows
RmTables ==
  {PianoWire.tensile_strength_Rm.table,
   << [d_min |-> 0, d_max |-> 300, Rm_daN |-> 180],
      [d_min |-> 200, d_max |-> 500, Rm_daN |-> 160] >>,
   << [d_min |-> 50, d_max |-> 100, Rm_daN |-> 200],
      [d_min |-> 150, d_max |-> 400, Rm_daN |-> 175] >>}

RmDiameters == {0, 50, 100, 120, 200, 250, 399, 400, 500, 549, 550, 600}

\* Rm is what the claim gives for d in the table: the Rm of the first row
\* whose range holds d, that of the last row when d is beyond every range
IsRmOf(table, d, Rm) ==
  /\ \A i \in 1..Len(table) :
       (/\ table[i].d_min <= d /\ d < table[i].d_max
        /\ \A j \in 1..(i - 1) : ~(table[j].d_min <= d /\ d < table[j].d_max))
       => Rm = table[i].Rm_daN
  /\ (\A i \in 1..Len(table) : d >= table[i].d_max) => Rm = table[Len(table)].Rm_daN

\* the Rm table of the material of the last recalculation (<<>> if none)
RmTable ==
  IF Truthy(get_material(DB, Inputs.matiere))
    THEN get(get(get_material(DB, Inputs.matiere), "tensile_strength_Rm", EmptyDict),
             "table", <<>>)
    ELSE <<>>

\* C25: for a known material with a non-empty Rm table, get_Rm gives a
\* diameter inside a row's range (d_min <= d < d_max) the Rm of the first such
\* row in table order, and a diameter beyond the upper bound of the table the
\* Rm of the last row.
C25_RmLookup ==
  /\ \A table \in RmTables, d \in RmDiameters : IsRmOf(table, d, Rm_of_table(table, d))
  /\ RmTable # <<>> =>
       /\ IsRmOf(RmTable, self.results.wireDiameter, Design.Rm)
       /\ Design.Rm = get_Rm(DB, Inputs.matiere, self.results.wireDiameter)

\* the user has picked a wire beyond the last row of the table of the piano
\* wire: the design has the Rm of that row
C25_Witness ==
  /\ hist.last = "wire"
  /\ RmTable # <<>>
  /\ \A i \in 1..Len(RmTable) : self.results.wireDiameter >= RmTable[i].d_max
  /\ Design.Rm = RmTable[Len(RmTable)].Rm_daN
  /\ Design.Rm # 150

\* C29: has_changes() is True only after an _apply_and_close that completed
\* without error: it is False initially, and stays False when no Body is
\* associated (nothing is written, the dialog stays open), when the user
\* declines the confirmation and when a property write raises.
C29_ChangesOnlyAfterCleanApply ==
  /\ hist.last = "init" => ~has_changes(self)
  /\ hist.last = "no_body" => ~has_changes(self) /\ self.result = "open"
  /\ hist.last = "declined" => ~has_changes(self)
  /\ hist.raised => ~has_changes(self)
  /\ has_changes(self) => hist.last = "applied" /\ self.result = "accepted"

\* C30: the stored previous diameter type is the selected one after the
\* construction, after _populate_from_spring_body and after every
\* _on_diameter_type_changed; a change event that carries the type already
\* stored changes neither the target nor the design.
C30_PreviousTypeTracksSelection ==
  /\ self.previous_diameter_type = self.inp_diameter_type
  /\ Contains(DiameterTypes(Globals), self.inp_diameter_type)
  /\ on_diameter_type_changed(Globals, self) = self

\* the user has selected another diameter type, which is now the stored one
C30_Witness ==
  /\ hist.last = "type"
  /\ self.inp_diameter_type # hist.prev.type
  /\ self.previous_diameter_type = self.inp_diameter_type
  /\ self.results.diameterType = self.inp_diameter_type

\* no iteration of the loop traced in trace, run on the inputs q, ends on a
\* wire below the one it started with unless no table diameter qualified
NeverDecreases(table, q, trace) ==
  \A i \in 1..Len(trace) :
    Qualifies(table, sizing(Globals, q.matiere, q.stress_factor, q.is_severe, q.F,
                            trace[i].d, trace[i].Dm).d_mini) # {}
      => trace[i].text >= trace[i].d

\* the dialog when the recalculation of _populate_from_spring_body begins
Populated == populate_widgets(Globals, setup_ui(Globals, body), body)

\* C24: within one run of the loop, an iteration for whose d_min some table
\* diameter qualifies (no fallback on the last five) never ends on a wire
\* below the one it started with, so that with a table of N diameters the
\* wire changes at most N - 1 times; for the last recalculation and for the
\* one that loaded the Body.
C24_CandidateNeverDecreases ==
  /\ NeverDecreases(self.all_diameters, Inputs, Calls)
  /\ Cardinality({i \in 1..Len(Calls) : Calls[i].text # Calls[i].d})
       <= Len(self.all_diameters) - 1
  /\ body # None =>
       NeverDecreases(self.all_diameters, read_inputs(Globals, Populated),
                      run_loop(Globals, Populated, read_inputs(Globals, Populated),
                               FALSE).trace)

-----------------------------------------------------------------------------
(* The turn counts in binary64.  _recalc computes on Python floats: the     *)
(* wire diameter is float() of a picklist text, Lc_max the value of a spin  *)
(* box with two decimals, and every / and * rounds to 53 significant bits,  *)
(* ties to even.  A natural number is a sequence of digits of base 2^15,    *)
(* lowest first, the last one not 0 (<<>> is 0); a float is [m, e] of value *)
(* m * 2^e.                                                                 *)

RECURSIVE DigitsOf(_)
DigitsOf(n) == IF n = 0 THEN <<>> ELSE <<n % 32768>> \o DigitsOf(n \div 32768)

RECURSIVE Value(_)
Value(a) == IF a = <<>> THEN 0 ELSE a[1] + 32768 * Value(Tail(a))

Digit(a, i) == IF i <= Len(a) THEN a[i] ELSE 0

\* the i-th bit of a, from 1
BitAt(a, i) == (Digit(a, (i - 1) \div 15 + 1) \div 2^((i - 1) % 15)) % 2

BitLen(a) ==
  IF a = <<>> THEN 0
  ELSE 15 * (Len(a) - 1) + (CHOOSE n \in 1..15 : 2^(n - 1) <= a[Len(a)] /\ a[Len(a)] < 2^n)

RECURSIVE AddFrom(_, _, _, _)
AddFrom(a, b, i, carry) ==
  IF i > Len(a) /\ i > Len(b) THEN (IF carry > 0 THEN <<carry>> ELSE <<>>)
  ELSE <<(Digit(a, i) + Digit(b, i) + carry) % 32768>>
         \o AddFrom(a, b, i + 1, (Digit(a, i) + Digit(b, i) + carry) \div 32768)

BigAdd(a, b) == AddFrom(a, b, 1, 0)

\* a - b for a >= b
RECURSIVE SubFrom(_, _, _, _)
SubFrom(a, b, i, borrow) ==
  IF i > Len(a) THEN <<>>
  ELSE <<(32768 + Digit(a, i) - Digit(b, i) - borrow) % 32768>>
         \o SubFrom(a, b, i + 1, IF Digit(a, i) - Digit(b, i) - borrow < 0 THEN 1 ELSE 0)

BigSub(a, b) == Norm(SubFrom(a, b, 1, 0))

\* a * x for a digit x
RECURSIVE ScaleFrom(_, _, _, _)
ScaleFrom(a, x, i, carry) ==
  IF i > Len(a) THEN (IF carry > 0 THEN <<carry>> ELSE <<>>)
  ELSE <<(a[i] * x + carry) % 32768>> \o ScaleFrom(a, x, i + 1, (a[i] * x + carry) \div 32768)

Scale(a, x) == Norm(ScaleFrom(a, x, 1, 0))

\* a * 2^k and floor(a / 2^k)
Shl(a, k) == IF a = <<>> THEN <<>> ELSE [i \in 1..(k \div 15) |-> 0] \o Scale(a, 2^(k % 15))

Shr(a, k) ==
  Norm([j \in 1..(Len(a) - (k \div 15)) |->
          (Digit(a, j + (k \div 15)) \div 2^(k % 15))
            + (Digit(a, j + (k \div 15) + 1) % 2^(k % 15)) * 2^(15 - (k % 15))])

RECURSIVE BigMul(_, _)
BigMul(a, b) ==
  IF a = <<>> \/ b = <<>> THEN <<>>
  ELSE BigAdd(Scale(a, b[1]), Shl(BigMul(a, Tail(b)), 15))

\* the largest digit y >= x with y * b <= r, the bits above k of y being
\* those of x
RECURSIVE QuotientDigit(_, _, _, _)
QuotientDigit(r, b, x, k) ==
  IF k < 0 THEN x
  ELSE IF BigLessNorm(r, Scale(b, x + 2^k)) THEN QuotientDigit(r, b, x, k - 1)
  ELSE QuotientDigit(r, b, x + 2^k, k - 1)

\* long division: the digits i..1 of a are still to bring down, r is the
\* remainder and q the quotient so far
RECURSIVE DivFrom(_, _, _, _, _)
RECURSIVE DivStep(_, _, _, _, _, _)
DivStep(a, b, i, r2, q, x) == DivFrom(a, b, i - 1, BigSub(r2, Scale(b, x)), <<x>> \o q)

DivFrom(a, b, i, r, q) ==
  IF i = 0 THEN [q |-> Norm(q), r |-> r]
  ELSE DivStep(a, b, i, Norm(<<a[i]>> \o r), q, QuotientDigit(Norm(<<a[i]>> \o r), b, 0, 14))

\* the quotient and the remainder of a by b # 0
BigDiv(a, b) == DivFrom(a, b, Len(a), <<>>, <<>>)

\* n (followed by a non-zero fraction if sticky) rounded to 53 significant
\* bits, ties to even, of which the last k are dropped: the value is m * 2^e
RoundTo(n, sticky, k) ==
  [m |-> IF /\ BitAt(n, k) = 1
            /\ \/ sticky
               \/ \E i \in 1..(k - 1) : BitAt(n, i) = 1
               \/ BitAt(n, k + 1) = 1
           THEN BigAdd(Shr(n, k), <<1>>) ELSE Shr(n, k),
   e |-> k]

Round(n, sticky) ==
  IF BitLen(n) <= 53 THEN [m |-> n, e |-> 0] ELSE RoundTo(n, sticky, BitLen(n) - 53)

Float(n) == [m |-> DigitsOf(n), e |-> 0]

FloatProduct(x, y, r) == [m |-> r.m, e |-> x.e + y.e + r.e]

FloatMul(x, y) == FloatProduct(x, y, Round(BigMul(x.m, y.m), FALSE))

FloatQuotient(x, y, k, dv) ==
  [m |-> Round(dv.q, dv.r # <<>>).m, e |-> x.e - y.e - k + Round(dv.q, dv.r # <<>>).e]

\* x / y for y # 0: x is scaled by 2^k for a quotient of more than 53 bits
FloatScaled(x, y, k) == FloatQuotient(x, y, k, BigDiv(Shl(x.m, k), y.m))

FloatDiv(x, y) ==
  FloatScaled(x, y, IF BitLen(y.m) + 55 > BitLen(x.m)
                      THEN BitLen(y.m) + 55 - BitLen(x.m) ELSE 0)

\* the exact sum
FloatSum(x, y) ==
  LET e == IF x.e < y.e THEN x.e ELSE y.e
  IN  [m |-> BigAdd(Shl(x.m, x.e - e), Shl(y.m, y.e - e)), e |-> e]

FloatLess(x, y) ==
  LET e == IF x.e < y.e THEN x.e ELSE y.e
  IN  BigLessNorm(Shl(x.m, x.e - e), Shl(y.m, y.e - e))

\* math.floor of x >= 0
FloatFloor(x) == IF x.e >= 0 THEN Value(Shl(x.m, x.e)) ELSE Value(Shr(x.m, -x.e))

\* float("%.2f" % v) and the value of a spin box with two decimals: the
\* float nearest to hundredths / 100
FloatOfText(hundredths) == FloatDiv(Float(hundredths), Float(100))

\* lines 1609-1621 for d > 0: quarters is floor(4 * Lc_max / d); nt_quarter,
\* nt = nt_quarter - 1 and nt + 1 are exact (multiples of 1/4)
float_turns(d, Lc_max, is_ground, quarters) ==
  [d |-> d, Lc_max |-> Lc_max, is_ground |-> is_ground,
   nt |-> IF is_ground THEN quarters ELSE quarters - 4,
   Lc_reel |-> FloatMul([m |-> DigitsOf(quarters), e |-> -2], d)]

float_total_turns(d, Lc_max, is_ground) ==
  float_turns(d, Lc_max, is_ground, FloatFloor(FloatDiv(FloatMul(Float(4), Lc_max), d)))

\* the alert of line 1659
solid_length_alert(t) == FloatLess(t.Lc_max, t.Lc_reel)

\* wire diameters of a table and solid lengths of inp_Lc_max (1.00 to 500.00)
WireTexts == {80, 100, 110, 150, 160, 320}
SolidLengthSamples == {340, 385, 500, 680, 1360, 6000}

InitTurns ==
  /\ \E d \in WireTexts, Lc \in SolidLengthSamples, g \in BOOLEAN :
       self = [inp_d |-> d, inp_Lc_max |-> Lc, is_ground |-> g, turns |-> None]
  /\ DB = None
  /\ translations = None
  /\ body = None
  /\ hist = [last |-> "init", events |-> 0]

\* the turn counts of _recalc for the wire and the solid length shown
ComputeTurns ==
  /\ self.turns = None
  /\ self' = [self EXCEPT !.turns = float_total_turns(FloatOfText(self.inp_d),
                                                      FloatOfText(self.inp_Lc_max),
                                                      self.is_ground)]
  /\ hist' = [last |-> "turns", events |-> 1]
  /\ UNCHANGED <<DB, translations, body>>

NextTurns == ComputeTurns

SpecTurns == InitTurns /\ [][NextTurns]_vars

\* C23: for every design with d > 0 and every end type the realized solid
\* length satisfies Lc_max - d/4 < Lc_real <= Lc_max, and the solid-length
\* alert (Lc_real > Lc_max) is not raised.
C23_SolidLengthWithinCap ==
  self.turns # None =>
    /\ FloatLess(self.turns.Lc_max,
                 FloatSum(self.turns.Lc_reel, [self.turns.d EXCEPT !.e = @ - 2]))
    /\ ~FloatLess(self.turns.Lc_max, self.turns.Lc_reel)
    /\ ~solid_length_alert(self.turns)

-----------------------------------------------------------------------------
(* The coordinate systems of a Body (SpringFullModule.py).  An object of    *)
(* the Body is [Name, TypeId, Visibility]; FreeCAD names an object by the   *)
(* base name asked for, followed by three digits when the base name is      *)
(* taken in the document: a Name is [base, digits].  A Spring under         *)
(* construction is the record s of its piece's Group and its own fields.    *)

LcsTypeId == "PartDesign::CoordinateSystem"

\* the numbered names FreeCAD gives: 001, 002
Suffixes == {<<0, 0, 1>>, <<0, 0, 2>>}

LcsNames == [base : {"Local_Top", "Local_Bottom"}, digits : {<<>>} \cup Suffixes]

\* the longest Group of a Body and the number of steps of a behaviour
MaxGroup == 3
MaxSteps == 5

Names(Group) == {Group[i].Name : i \in DOMAIN Group}

ObjectOf(Group, name) == Group[CHOOSE i \in DOMAIN Group : Group[i].Name = name]

\* int() of the digits captured by the pattern
RECURSIVE DecimalValue(_)
DecimalValue(digits) ==
  IF digits = <<>> THEN 0
  ELSE 10 * DecimalValue(SubSeq(digits, 1, Len(digits) - 1)) + digits[Len(digits)]

\* lines 200-213, for the names FreeCAD generates from base_pattern
extract_suffix_number(name, base_pattern) ==
  IF name.digits # <<>> THEN DecimalValue(name.digits) ELSE 0

\* sorted(lcs_list, key = extract_suffix_number): a stable sort
RECURSIVE sorted(_, _)
InsertSorted(x, done, base_pattern) ==
  LET before == {i \in DOMAIN done :
                   extract_suffix_number(done[i].Name, base_pattern)
                     <= extract_suffix_number(x.Name, base_pattern)}
      k == IF before = {} THEN 0 ELSE CHOOSE i \in before : \A j \in before : j <= i
  IN  SubSeq(done, 1, k) \o <<x>> \o SubSeq(done, k + 1, Len(done))

sorted(lcs_list, base_pattern) ==
  IF lcs_list = <<>> THEN <<>>
  ELSE InsertSorted(lcs_list[Len(lcs_list)],
                    sorted(SubSeq(lcs_list, 1, Len(lcs_list) - 1), base_pattern),
                    base_pattern)

\* lines 215-229: the names of the primary and of the duplicates
get_primary_and_duplicates(lcs_list, base_pattern) ==
  IF lcs_list = <<>> THEN [primary |-> None, duplicates |-> {}]
  ELSE IF Len(lcs_list) = 1 THEN [primary |-> lcs_list[1].Name, duplicates |-> {}]
  ELSE [primary |-> sorted(lcs_list, base_pattern)[1].Name,
        duplicates |-> {Tail(sorted(lcs_list, base_pattern))[i].Name :
                          i \in 1..(Len(lcs_list) - 1)}]

\* lines 190-198: the coordinate systems of the Group of one kind
top_lcs_list(Group) ==
  SelectSeq(Group, LAMBDA obj : obj.TypeId = LcsTypeId /\ obj.Name.base = "Local_Top")

bottom_lcs_list(Group) ==
  SelectSeq(Group, LAMBDA obj : obj.TypeId = LcsTypeId /\ obj.Name.base = "Local_Bottom")

\* lines 104-117, with the mistaken variant that saves the state at every hide
hide_lcs_untracked(s, lcs) ==
  [s EXCEPT !._hidden_lcs = Append(@, <<lcs, ObjectOf(s.Group, lcs).Visibility>>),
            !.Group = [i \in DOMAIN @ |->
                         IF @[i].Name = lcs THEN [@[i] EXCEPT !.Visibility = FALSE] ELSE @[i]]]

hide_lcs(s, lcs) ==
  [s EXCEPT !._hidden_lcs =
              IF \E i \in DOMAIN @ : @[i][1] = lcs THEN @
              ELSE Append(@, <<lcs, ObjectOf(s.Group, lcs).Visibility>>),
            !.Group = [i \in DOMAIN @ |->
                         IF @[i].Name = lcs THEN [@[i] EXCEPT !.Visibility = FALSE] ELSE @[i]]]

\* lines 119-134: the saved states are restored in the order of the list
RECURSIVE restore(_, _)
restore(Group, hidden) ==
  IF hidden = <<>> THEN Group
  ELSE restore([i \in DOMAIN Group |->
                  IF Group[i].Name = hidden[1][1]
                    THEN [Group[i] EXCEPT !.Visibility = hidden[1][2]] ELSE Group[i]],
               Tail(hidden))

show_all_lcs(s) == [s EXCEPT !.Group = restore(@, s._hidden_lcs), !._hidden_lcs = <<>>]

\* lines 239-245
hide_primaries(s) ==
  IF s._primary_top_lcs # None
    THEN IF s._primary_bottom_lcs # None
           THEN hide_lcs(hide_lcs(s, s._primary_top_lcs), s._primary_bottom_lcs)
           ELSE hide_lcs(s, s._primary_top_lcs)
    ELSE IF s._primary_bottom_lcs # None THEN hide_lcs(s, s._primary_bottom_lcs) ELSE s

\* lines 247-261
remove_duplicates(s, duplicates) ==
  [s EXCEPT !.Group = SelectSeq(@, LAMBDA obj : obj.Name \notin duplicates)]

\* lines 172-261
cleanup_staged(s, top, bottom) ==
  remove_duplicates(hide_primaries([s EXCEPT !._primary_top_lcs = top.primary,
                                             !._primary_bottom_lcs = bottom.primary]),
                    top.duplicates \cup bottom.duplicates)

cleanup_duplicate_lcs(s) ==
  cleanup_staged(s, get_primary_and_duplicates(top_lcs_list(s.Group), "Local_Top"),
                    get_primary_and_duplicates(bottom_lcs_list(s.Group), "Local_Bottom"))

\* piece.newObject of line 292: a visible object under the name the document
\* gives it
newObject(s, name) ==
  [s EXCEPT !.Group = Append(@, [Name |-> name, TypeId |-> LcsTypeId, Visibility |-> TRUE])]

\* lines 263-314, with the mistaken variant that never reuses; new_name is
\* the name the document gives to a new object of that base name
create_lcs(s, lcs_type, new_name) ==
  IF lcs_type = "top"
    THEN hide_lcs([newObject(s, new_name) EXCEPT !._primary_top_lcs = new_name], new_name)
    ELSE hide_lcs([newObject(s, new_name) EXCEPT !._primary_bottom_lcs = new_name], new_name)

find_or_create_lcs(s, lcs_type, new_name) ==
  IF lcs_type = "top" /\ s._primary_top_lcs # None THEN hide_lcs(s, s._primary_top_lcs)
  ELSE IF lcs_type = "bottom" /\ s._primary_bottom_lcs # None
    THEN hide_lcs(s, s._primary_bottom_lcs)
  ELSE create_lcs(s, lcs_type, new_name)

\* lines 601-607 (the sketch and the pocket are not coordinate systems)
create_limit_plane(s, lcs_name, new_name) ==
  find_or_create_lcs(s, IF lcs_name = "Local_Top" THEN "top" ELSE "bottom", new_name)

\* lines 649-659 and 742-750
create_lcs_only(s, new_top, new_bottom) ==
  find_or_create_lcs(find_or_create_lcs(s, "top", new_top), "bottom", new_bottom)

create_simplified_lcs(s, new_top, new_bottom) ==
  find_or_create_lcs(find_or_create_lcs(s, "top", new_top), "bottom", new_bottom)

\* lines 557-599
Limits(s, ground, new_top, new_bottom) ==
  IF ~ground THEN create_lcs_only(s, new_top, new_bottom)
  ELSE create_limit_plane(create_limit_plane(s, "Local_Top", new_top),
                          "Local_Bottom", new_bottom)

\* lines 46-83, up to the call of _show_all_lcs
Built(piece, simplified, ground, new_top, new_bottom) ==
  IF simplified
    THEN create_simplified_lcs(
           cleanup_duplicate_lcs([Group |-> piece.Group, _hidden_lcs |-> <<>>,
                                  _primary_top_lcs |-> None, _primary_bottom_lcs |-> None]),
           new_top, new_bottom)
    ELSE Limits(
           cleanup_duplicate_lcs([Group |-> piece.Group, _hidden_lcs |-> <<>>,
                                  _primary_top_lcs |-> None, _primary_bottom_lcs |-> None]),
           ground, new_top, new_bottom)

Spring(piece, simplified, ground, new_top, new_bottom) ==
  show_all_lcs(Built(piece, simplified, ground, new_top, new_bottom))

\* the names the document can give to a new object of a base name: the base
\* name when it is free, a numbered one otherwise
UniqueNames(Group, base) ==
  IF [base |-> base, digits |-> <<>>] \notin Names(Group)
    THEN {[base |-> base, digits |-> <<>>]}
    ELSE {[base |-> base, digits |-> dg] : dg \in Suffixes} \ Names(Group)

InitLcs ==
  /\ body = [Group |-> <<>>]
  /\ self = None
  /\ DB = None
  /\ translations = None
  /\ hist = [last |-> "init", events |-> 0, before |-> <<>>, hidden |-> <<>>]

\* Spring(data, piece): a construction, detailed or simplified, ground or not
Construct ==
  /\ hist.events < MaxSteps
  /\ \E simplified \in BOOLEAN, ground \in BOOLEAN,
        new_top \in UniqueNames(body.Group, "Local_Top")
                      \cup {[base |-> "Local_Top", digits |-> <<>>]},
        new_bottom \in UniqueNames(body.Group, "Local_Bottom")
                         \cup {[base |-> "Local_Bottom", digits |-> <<>>]} :
       /\ self' = [Spring(body, simplified, ground, new_top, new_bottom)
                     EXCEPT !.Group = <<>>]
       /\ body' = [Group |-> Spring(body, simplified, ground, new_top, new_bottom).Group]
       /\ hist' = [last |-> "construct", events |-> hist.events + 1,
                   before |-> body.Group,
                   hidden |-> Built(body, simplified, ground, new_top, new_bottom)._hidden_lcs]
  /\ UNCHANGED <<DB, translations>>

\* the user copies a coordinate system into the Body (or an older version
\* of the macro has left one more)
CopyLcs ==
  /\ hist.events < MaxSteps
  /\ Len(body.Group) < MaxGroup
  /\ \E base \in {"Local_Top", "Local_Bottom"}, visible \in BOOLEAN :
       \E name \in UniqueNames(body.Group, base) :
         body' = [Group |-> Append(body.Group, [Name |-> name, TypeId |-> LcsTypeId,
                                                Visibility |-> visible])]
  /\ hist' = [last |-> "copy", events |-> hist.events + 1, before |-> <<>>, hidden |-> <<>>]
  /\ UNCHANGED <<DB, translations, self>>

\* the user deletes a coordinate system of the Body
DeleteLcs ==
  /\ hist.events < MaxSteps
  /\ \E i \in DOMAIN body.Group :
       body' = [Group |-> SubSeq(body.Group, 1, i - 1)
                            \o SubSeq(body.Group, i + 1, Len(body.Group))]
  /\ hist' = [last |-> "delete", events |-> hist.events + 1, before |-> <<>>, hidden |-> <<>>]
  /\ UNCHANGED <<DB, translations, self>>

NextLcs == Construct \/ CopyLcs \/ DeleteLcs

SpecLcs == InitLcs /\ [][NextLcs]_vars

Tops(Group) == {name \in Names(Group) : name.base = "Local_Top"}
Bottoms(Group) == {name \in Names(Group) : name.base = "Local_Bottom"}

\* the name of lowest numeric suffix (none is 0) of a non-empty set of names
Lowest(names) ==
  CHOOSE name \in names :
    \A other \in names : DecimalValue(name.digits) <= DecimalValue(other.digits)

\* C26: after a Spring construction on a Body (detailed or simplified, ground
\* or not) the Body holds exactly one Local_Top and exactly one Local_Bottom
\* coordinate system; of the ones of a kind present before the construction
\* the one of lowest numeric name suffix (no suffix counts as 0) is the one
\* kept, reused and not recreated.
C26_OneLcsOfEachKind ==
  hist.last = "construct" =>
    /\ Cardinality(Tops(body.Group)) = 1
    /\ Cardinality(Bottoms(body.Group)) = 1
    /\ Len(body.Group) = 2
    /\ Tops(hist.before) # {} => Tops(body.Group) = {Lowest(Tops(hist.before))}
    /\ Bottoms(hist.before) # {} => Bottoms(body.Group) = {Lowest(Bottoms(hist.before))}

\* a construction on a Body with two Local_Top, the one of lowest suffix
\* being the later in the Group
C26_Witness ==
  /\ hist.last = "construct"
  /\ Cardinality(Tops(hist.before)) = 2
  /\ hist.before[Len(hist.before)].Name = Lowest(Tops(hist.before))
  /\ hist.before[Len(hist.before)].Name \in Tops(body.Group)

\* C27: after _show_all_lcs every coordinate system hidden during the
\* construction, however many times, has the visibility it had before its
\* first hide (a new one is created visible), and the list of hidden
\* coordinate systems is empty.
C27_VisibilityRestored ==
  hist.last = "construct" =>
    /\ self._hidden_lcs = <<>>
    /\ \A i \in DOMAIN hist.hidden :
         /\ hist.hidden[i][1] \in Names(body.Group)
         /\ ObjectOf(body.Group, hist.hidden[i][1]).Visibility =
              IF hist.hidden[i][1] \in Names(hist.before)
                THEN ObjectOf(hist.before, hist.hidden[i][1]).Visibility ELSE TRUE

\* a construction that has hidden (twice) a visible coordinate system and an
\* invisible one
C27_Witness ==
  /\ hist.last = "construct"
  /\ \E i, j \in DOMAIN hist.hidden :
       /\ hist.hidden[i][1] \in Names(hist.before)
       /\ hist.hidden[j][1] \in Names(hist.before)
       /\ ObjectOf(body.Group, hist.hidden[i][1]).Visibility
       /\ ~ObjectOf(body.Group, hist.hidden[j][1]).Visibility

-----------------------------------------------------------------------------
(* The DataSet of a Body (SpringFullDataModule.py).  The Body and the       *)
(* DataSet are functions of property names; lengths are in 0.01 mm and      *)
(* turn counts in quarter turns.  adjustedWireDiameter, offsetY and         *)
(* activeTurnsPitch are attributes of the DataSet only, never written to    *)
(* the Body, and are left out.                                              *)

\* lines 28-254, the properties that loadFromBody, datasFormatting and
\* saveToBody read or write, with their defaults
SPRING_PROPERTIES ==
  [configuration |-> "Ressort sous charge", extremeTurns |-> "RAPPROCHEES MEULEES",
   internalDiameter |-> 1600, meanDiameter |-> 2000, externalDiameter |-> 2400,
   wireDiameter |-> 400, activeTurnsQty |-> 36, deadTurnsQty |-> 4,
   activeTurnsHight |-> 6423, deadTurnsHight |-> 1200,
   minActiveTurnsHight |-> 3600, maxActiveTurnsHight |-> 6423,
   leftHanded |-> FALSE]

\* lines 264-300: every attribute starts from its default
DataSet_init == [p \in DOMAIN SPRING_PROPERTIES \cup {"deadTurnsPitch"} |->
                   IF p = "deadTurnsPitch" THEN 0 ELSE SPRING_PROPERTIES[p]]

\* lines 583-587: 'MEULEES' in extremeTurns.upper()
GroundNames == {"MEULEES", "RAPPROCHEES MEULEES"}

\* lines 564-612
datasFormatting(ds) ==
  [ds EXCEPT !.minActiveTurnsHight =
               IF ds.extremeTurns \in GroundNames THEN @ ELSE @ - ds.wireDiameter,
             !.maxActiveTurnsHight =
               IF ds.extremeTurns \in GroundNames THEN @ ELSE @ - ds.wireDiameter,
             !.deadTurnsPitch = ds.wireDiameter,
             !.internalDiameter = ds.meanDiameter - ds.wireDiameter,
             !.externalDiameter = ds.meanDiameter + ds.wireDiameter,
             !.deadTurnsHight = (ds.deadTurnsQty * ds.wireDiameter) \div 4]

\* lines 478-484: the values of the Body that are not empty
StringProperties == {"configuration", "extremeTurns"}

load_properties(ds, b) ==
  [p \in DOMAIN ds |->
     IF p \in DOMAIN SPRING_PROPERTIES /\ p \in DOMAIN b /\ ~(p \in StringProperties /\ b[p] = "")
       THEN b[p] ELSE ds[p]]

\* lines 453-489
loadFromBody(ds, b) == datasFormatting(load_properties(ds, b))

\* lines 530-562
updateCalculatedDiameters(ds, b) ==
  [p \in DOMAIN b |->
     IF p = "internalDiameter" THEN ds.meanDiameter - ds.wireDiameter
     ELSE IF p = "externalDiameter" THEN ds.meanDiameter + ds.wireDiameter
     ELSE b[p]]

\* lines 491-528: the Body after saveToBody
saveToBody(ds, b) ==
  updateCalculatedDiameters(ds,
    [p \in DOMAIN b |->
       IF p \in DOMAIN SPRING_PROPERTIES /\ p \in DOMAIN ds THEN ds[p] ELSE b[p]])

\* Bodies holding all the spring properties, as the calculator writes them
EndTypeNames == {"COUPEES", "MEULEES", "RAPPROCHEES", "RAPPROCHEES MEULEES"}

DataBodies ==
  {[SPRING_PROPERTIES EXCEPT !.extremeTurns = e, !.wireDiameter = d,
                             !.internalDiameter = 2000 - d, !.externalDiameter = 2000 + d,
                             !.deadTurnsQty = nm, !.deadTurnsHight = (nm * d) \div 4,
                             !.leftHanded = left] :
     e \in EndTypeNames, d \in {200, 400}, nm \in {0, 6}, left \in BOOLEAN}

\* DataSet(body): setBody loads the Body
InitData ==
  /\ body \in DataBodies
  /\ self = loadFromBody(DataSet_init, body)
  /\ DB = None
  /\ translations = None
  /\ hist = [last |-> "init", events |-> 0, before |-> body]

LoadFromBody ==
  /\ hist.events < MaxSteps
  /\ self' = loadFromBody(self, body)
  /\ hist' = [last |-> "load", events |-> hist.events + 1, before |-> body]
  /\ UNCHANGED <<DB, translations, body>>

SaveToBody ==
  /\ hist.events < MaxSteps
  /\ body' = saveToBody(self, body)
  /\ hist' = [last |-> IF hist.last \in {"init", "load"} THEN "load_save" ELSE "save",
              events |-> hist.events + 1, before |-> hist.before]
  /\ UNCHANGED <<DB, translations, self>>

NextData == LoadFromBody \/ SaveToBody

SpecData == InitData /\ [][NextData]_vars

\* C28: loadFromBody followed immediately by saveToBody leaves every spring
\* property of a Body that holds them all unchanged, for every end type; in
\* particular minActiveTurnsHight and maxActiveTurnsHight do not drift.
C28_LoadSaveRoundTrip == hist.last = "load_save" => body = hist.before

====
